---------------------------- MODULE Spec2Model ----------------------------
(***************************************************************************)
(* A model of the oneshot studio server: the step pipeline (src/index.ts), *)
(* progress inference and the per-project run tracking of the HTTP layer   *)
(* (src/server.ts).                                                        *)
(*                                                                         *)
(* File names are sequences of one-character strings, so that the regular  *)
(* expressions and the endsWith tests of detectStatus are computed on the  *)
(* characters of the name.                                                 *)
(***************************************************************************)
EXTENDS Integers, Sequences, FiniteSets, TLC

VARIABLES
    dirExists,    \* detectStatus: fs.existsSync(dir)
    dirFiles,     \* detectStatus: fs.readdirSync(dir), a set of file names
    dirOp,        \* the last change made to the directory listing
    lastStatus,   \* the result of detectStatus on the current listing
    prevStatus,   \* the result of detectStatus before the last change
    running,      \* server.ts: the Map projectId -> stepNum
    store,        \* temp/<id>: the files of each project directory
    handlers,     \* the admitted step requests suspended at an await
    runs,         \* the fan-outs of step 4 and step 5 (p-limit and its units)
    req,          \* the request (or poll reply) that arrived in the last transition
    res,          \* the HTTP response sent in the last transition
    runningRef,   \* client: runningRef.current of the project view
    auto,         \* client: the auto-advance checkbox
    calls,        \* client: the handleRun calls suspended at await runStep
    clicked       \* client: what the last handleRun call made by the user did

detectVars == <<dirExists, dirFiles, dirOp, lastStatus, prevStatus>>

serverVars == <<running, store, handlers, runs, req, res>>

clientVars == <<runningRef, auto, calls, clicked>>

vars == <<dirExists, dirFiles, dirOp, lastStatus, prevStatus,
          running, store, handlers, runs, req, res,
          runningRef, auto, calls, clicked>>

\* An optional value: <<>> when absent (undefined, a missing file), <<v>>
\* when present.
Nothing == <<>>
Some(v) == <<v>>
IsSome(o) == o # <<>>
Get(o) == o[1]

(***************************************************************************)
(* File names                                                              *)
(***************************************************************************)
Digit == {"0", "1", "2", "3", "4", "5", "6", "7", "8", "9"}

DigitChar(d) ==
    CASE d = 0 -> "0" [] d = 1 -> "1" [] d = 2 -> "2" [] d = 3 -> "3"
      [] d = 4 -> "4" [] d = 5 -> "5" [] d = 6 -> "6" [] d = 7 -> "7"
      [] d = 8 -> "8" [] d = 9 -> "9"

\* `${i}` in a template literal: the decimal digits of a non-negative integer.
RECURSIVE Decimal(_)
Decimal(i) ==
    IF i < 10 THEN <<DigitChar(i)>>
    ELSE Decimal(i \div 10) \o <<DigitChar(i % 10)>>

ExtJpg == <<".", "j", "p", "g">>
ExtMp4 == <<".", "m", "p", "4">>
ExtJson == <<".", "j", "s", "o", "n">>
ExtTxt == <<".", "t", "x", "t">>

StemKeyframe == <<"k", "e", "y", "f", "r", "a", "m", "e">>
StemSegment == <<"s", "e", "g", "m", "e", "n", "t">>

InputTxt == <<"i", "n", "p", "u", "t">> \o ExtTxt
ScriptJson == <<"s", "c", "r", "i", "p", "t">> \o ExtJson
CharacterJpg == <<"c", "h", "a", "r", "a", "c", "t", "e", "r">> \o ExtJpg
CharacterUrlTxt ==
    <<"c", "h", "a", "r", "a", "c", "t", "e", "r", "_", "u", "r", "l">> \o ExtTxt
KeyframesJson == StemKeyframe \o <<"s">> \o ExtJson
ListTxt == <<"l", "i", "s", "t">> \o ExtTxt
MovieMp4 == <<"m", "o", "v", "i", "e">> \o ExtMp4
OutputMp4 == <<"o", "u", "t", "p", "u", "t">> \o ExtMp4

\* path.join(outDir, `keyframe${i}.jpg`)
KeyframeJpg(i) == StemKeyframe \o Decimal(i) \o ExtJpg
\* path.join(outDir, `segment${i + 1}.mp4`), n = i + 1
SegmentMp4(n) == StemSegment \o Decimal(n) \o ExtMp4

StartsWith(f, pre) ==
    Len(f) >= Len(pre) /\ SubSeq(f, 1, Len(pre)) = pre

EndsWith(f, suf) ==
    Len(f) >= Len(suf) /\ SubSeq(f, Len(f) - Len(suf) + 1, Len(f)) = suf

\* f.match(/^<pre>\d+<suf>$/): the prefix, one or more digits, the suffix.
MatchesNumbered(f, pre, suf) ==
    /\ Len(f) > Len(pre) + Len(suf)
    /\ StartsWith(f, pre)
    /\ EndsWith(f, suf)
    /\ \A k \in (Len(pre) + 1)..(Len(f) - Len(suf)) : f[k] \in Digit

(***************************************************************************)
(* Progress inference                                                      *)
(***************************************************************************)
IsArtifact(f) ==
    \/ EndsWith(f, ExtJpg)
    \/ EndsWith(f, ExtMp4)
    \/ EndsWith(f, ExtJson)
    \/ f = InputTxt

\* A mutant of completedStepOf: the six tests chained with else, so that the
\* first satisfied test decides.
completedStepFirstMatch(files) ==
    IF InputTxt \in files THEN 1
    ELSE IF ScriptJson \in files THEN 2
    ELSE IF CharacterJpg \in files THEN 3
    ELSE IF \E f \in files : MatchesNumbered(f, StemKeyframe, ExtJpg) THEN 4
    ELSE IF \E f \in files : MatchesNumbered(f, StemSegment, ExtMp4) THEN 5
    ELSE IF MovieMp4 \in files \/ OutputMp4 \in files THEN 6
    ELSE 0

\* The six sequential assignments to completedStep, each overwriting the
\* one before it.
completedStepOf(files) ==
    LET c0 == 0
        c1 == IF InputTxt \in files THEN 1 ELSE c0
        c2 == IF ScriptJson \in files THEN 2 ELSE c1
        c3 == IF CharacterJpg \in files THEN 3 ELSE c2
        c4 == IF \E f \in files : MatchesNumbered(f, StemKeyframe, ExtJpg)
              THEN 4 ELSE c3
        c5 == IF \E f \in files : MatchesNumbered(f, StemSegment, ExtMp4)
              THEN 5 ELSE c4
        c6 == IF MovieMp4 \in files \/ OutputMp4 \in files THEN 6 ELSE c5
    IN  c6

detectStatus(exists, files) ==
    IF ~exists
    THEN [completedStep |-> 0, artifacts |-> {}]
    ELSE [completedStep |-> completedStepOf(files),
          artifacts |-> {f \in files : IsArtifact(f)}]

(***************************************************************************)
(* The step number of a request                                            *)
(***************************************************************************)
\* A JavaScript number that may be NaN.
NaN == [nan |-> TRUE, n |-> 0]
Num(k) == [nan |-> FALSE, n |-> k]

\* a < b on numbers: false when either side is NaN.
JsLess(a, b) == ~a.nan /\ ~b.nan /\ a.n < b.n

DigitVal(c) == CHOOSE d \in 0..9 : DigitChar(d) = c

RECURSIVE DigitsValue(_)
DigitsValue(ds) ==
    IF ds = <<>> THEN 0
    ELSE 10 * DigitsValue(SubSeq(ds, 1, Len(ds) - 1)) + DigitVal(ds[Len(ds)])

\* The longest prefix of s made of decimal digits.
RECURSIVE DigitPrefix(_)
DigitPrefix(s) ==
    IF s = <<>> \/ s[1] \notin Digit THEN <<>>
    ELSE <<s[1]>> \o DigitPrefix(Tail(s))

RECURSIVE SkipSpaces(_)
SkipSpaces(s) ==
    IF s # <<>> /\ s[1] = " " THEN SkipSpaces(Tail(s)) ELSE s

\* parseInt(string): leading white space is skipped, a sign is accepted, the
\* leading decimal digits are read and whatever follows them is ignored; NaN
\* when no digit is read.
parseInt(str) ==
    LET t == SkipSpaces(str)
        signed == t # <<>> /\ t[1] \in {"-", "+"}
        body == IF signed THEN Tail(t) ELSE t
        ds == DigitPrefix(body)
    IN  IF ds = <<>> THEN NaN
        ELSE IF signed /\ t[1] = "-" THEN Num(0 - DigitsValue(ds))
        ELSE Num(DigitsValue(ds))

\* if (stepNum < 1 || stepNum > 6)
OutOfRange(stepNum) == JsLess(stepNum, Num(1)) \/ JsLess(Num(6), stepNum)

(***************************************************************************)
(* The script of step 2                                                    *)
(***************************************************************************)
\* A JSON value of the parsed object: a missing property, an array, or a
\* value that is no array (text holds a string's truthiness: "" is falsy).
Absent == [kind |-> "absent", items |-> <<>>, truthy |-> FALSE]
JsArray(items) == [kind |-> "array", items |-> items, truthy |-> TRUE]
JsText(truthy) == [kind |-> "text", items |-> <<>>, truthy |-> truthy]

\* Array.isArray(v)
IsArray(v) == v.kind = "array"

\* A mutant of ValidationError: the keyframes are not counted.
ValidationErrorNoCount(script) ==
    IF \/ ~IsArray(script.segments)
       \/ ~IsArray(script.keyframes)
       \/ ~script.mainCharacterDescription.truthy
    THEN "Invalid script: missing segments, keyframes, or mainCharacterDescription. Re-run step 2."
    ELSE ""

\* The validation of step 2: the error it throws, or "" when the script is
\* accepted.
ValidationError(script) ==
    IF \/ ~IsArray(script.segments)
       \/ ~IsArray(script.keyframes)
       \/ ~script.mainCharacterDescription.truthy
    THEN "Invalid script: missing segments, keyframes, or mainCharacterDescription. Re-run step 2."
    ELSE IF Len(script.keyframes.items) # Len(script.segments.items) + 1
    THEN "Expected keyframes for segments. Re-run step 2."
    ELSE ""

\* script.segments.forEach((s) => console.log(`... ${s.script}`)) after the
\* script is written: reading .script of a null element throws a TypeError.
LogThrows(script) ==
    \E k \in 1..Len(script.segments.items) : script.segments.items[k] = "null"

\* A text-generation outcome: callLLM throws ("error"), or returns a text
\* with or without a brace pair, whose slice JSON.parse rejects ("syntax")
\* or turns into an object ("object").
LLMError == [kind |-> "error", script |-> Nothing]
LLMNoBraces == [kind |-> "nobraces", script |-> Nothing]
LLMSyntax == [kind |-> "syntax", script |-> Nothing]
LLMObject(script) == [kind |-> "object", script |-> Some(script)]

\* What step 2 does with a text-generation outcome: the error it throws (""
\* when it returns normally) and the script it writes before that, if any.
step2Result(outcome) ==
    CASE outcome.kind = "error" ->
            [error |-> "MiniMax LLM error", written |-> Nothing]
      [] outcome.kind = "nobraces" ->
            [error |-> "Failed to parse script from response", written |-> Nothing]
      [] outcome.kind = "syntax" ->
            [error |-> "SyntaxError", written |-> Nothing]
      [] outcome.kind = "object" ->
            LET script == Get(outcome.script)
                invalid == ValidationError(script)
            IN  IF invalid # ""
                THEN [error |-> invalid, written |-> Nothing]
                ELSE IF LogThrows(script)
                THEN [error |-> "TypeError: Cannot read properties of null",
                      written |-> Some(script)]
                ELSE [error |-> "", written |-> Some(script)]

(***************************************************************************)
(* The project directory                                                   *)
(***************************************************************************)
\* A directory that does not exist.
NoDir ==
    [exists |-> FALSE, input |-> Nothing, script |-> Nothing,
     character |-> Nothing, character_url |-> Nothing,
     keyframe |-> <<>>, keyframes_json |-> Nothing,
     segment |-> <<>>, list |-> Nothing, movie |-> Nothing]

\* fs.readdirSync(dir): the names of the files the directory holds.
\* keyframe[k] is the file keyframe{k-1}.jpg and segment[k] the file
\* segment{k}.mp4, each an optional content.
FilesOf(st) ==
    (IF IsSome(st.input) THEN {InputTxt} ELSE {})
      \cup (IF IsSome(st.script) THEN {ScriptJson} ELSE {})
      \cup (IF IsSome(st.character) THEN {CharacterJpg} ELSE {})
      \cup (IF IsSome(st.character_url) THEN {CharacterUrlTxt} ELSE {})
      \cup {KeyframeJpg(k - 1) : k \in {j \in DOMAIN st.keyframe : IsSome(st.keyframe[j])}}
      \cup (IF IsSome(st.keyframes_json) THEN {KeyframesJson} ELSE {})
      \cup {SegmentMp4(k) : k \in {j \in DOMAIN st.segment : IsSome(st.segment[j])}}
      \cup (IF IsSome(st.list) THEN {ListTxt} ELSE {})
      \cup (IF IsSome(st.movie) THEN {MovieMp4} ELSE {})

\* A sequence with position k set to v, padded with absent contents up to k.
WriteAt(seq, k, v) ==
    [j \in 1..(IF k > Len(seq) THEN k ELSE Len(seq)) |->
        IF j = k THEN Some(v)
        ELSE IF j <= Len(seq) THEN seq[j] ELSE Nothing]

\* detectStatus(getProjectDir(id))
statusOfDir(st) == detectStatus(st.exists, FilesOf(st))

(***************************************************************************)
(* Run tracking, requests and responses                                    *)
(***************************************************************************)
\* The project ids of the requests, in ascending order of localeCompare.
ProjectList == <<"p1", "p2">>
Projects == {ProjectList[k] : k \in 1..Len(ProjectList)}

\* The admitted step requests that can be suspended at the same time.
MaxHandlers == 2
HandlerIds == 1..MaxHandlers

\* The fan-outs that can have units in flight at the same time.
MaxRuns == 2
RunIds == 1..MaxRuns

\* pLimit(5)
Limit == 5

\* A mutant of hasRunning: the check for a run in flight is missing.
hasRunningNever(p) == FALSE

\* A mutant of hasRunning: the check is not keyed by project.
hasRunningAny(p) == \E q \in Projects : IsSome(running[q])

\* running.has(id)
hasRunning(p) == IsSome(running[p])

\* running.set(id, stepNum)
runningSet(m, p, stepNum) == [m EXCEPT ![p] = Some(stepNum)]

\* running.delete(id)
runningDelete(m, p) == [m EXCEPT ![p] = Nothing]

\* A mutant of finallyRunning: the entry is deleted at the end of the try
\* block, so only when the step succeeded.
finallyRunningOnSuccess(m, p, code) ==
    IF code = 200 THEN runningDelete(m, p) ELSE m

\* finally { running.delete(id) }: runs whatever response (code) was sent.
finallyRunning(m, p, code) == runningDelete(m, p)

\* JSON.stringify of a number: NaN is written as null.
jsonNumber(num) == IF num.nan THEN Nothing ELSE Some(num.n)

\* A mutant of runningStepOf: no run is reported as step 0 instead of null.
runningStepOfZero(p) ==
    IF IsSome(running[p]) THEN jsonNumber(Get(running[p])) ELSE Some(0)

\* running.get(id) ?? null, as it is sent in a JSON body.
runningStepOf(p) ==
    IF IsSome(running[p]) THEN jsonNumber(Get(running[p])) ELSE Nothing

NoReq == [kind |-> "none", id |-> "", stepNum |-> NaN]
StepReq(p, stepNum) == [kind |-> "step", id |-> p, stepNum |-> stepNum]
StatusReq(p) == [kind |-> "status", id |-> p, stepNum |-> NaN]
ListReq == [kind |-> "list", id |-> "", stepNum |-> NaN]

NoRes ==
    [kind |-> "none", id |-> "", code |-> 0, error |-> "", completedStep |-> 0,
     artifacts |-> {}, runningStep |-> Nothing, projects |-> <<>>]

\* res.status(code).json({ error })
ErrorRes(p, code, error) ==
    [NoRes EXCEPT !.kind = "step", !.id = p, !.code = code, !.error = error]

\* res.json({ id, ...status })
StepRes(p, st) ==
    LET status == statusOfDir(st)
    IN  [NoRes EXCEPT !.kind = "step", !.id = p, !.code = 200,
                      !.completedStep = status.completedStep,
                      !.artifacts = status.artifacts]

\* The response of a step that threw error, or returned normally ("").
OutcomeRes(p, st, error) ==
    IF error = "" THEN StepRes(p, st) ELSE ErrorRes(p, 500, error)

\* The body of GET /api/projects/:id/status.
StatusRes(p) ==
    LET status == statusOfDir(store[p])
    IN  [NoRes EXCEPT !.kind = "status", !.id = p, !.code = 200,
                      !.completedStep = status.completedStep,
                      !.artifacts = status.artifacts,
                      !.runningStep = runningStepOf(p)]

\* The entry of a project in the body of GET /api/projects.
ProjectEntry(p) ==
    [id |-> p,
     completedStep |-> statusOfDir(store[p]).completedStep,
     description |-> IF IsSome(store[p].input) THEN Get(store[p].input) ELSE "",
     runningStep |-> runningStepOf(p)]

\* dirs.sort((a, b) => b.localeCompare(a)).map(...): the existing
\* directories, the highest id first.
RECURSIVE ProjectEntries(_)
ProjectEntries(k) ==
    IF k = 0 THEN <<>>
    ELSE (IF store[ProjectList[k]].exists
          THEN <<ProjectEntry(ProjectList[k])>> ELSE <<>>)
         \o ProjectEntries(k - 1)

ListRes ==
    [NoRes EXCEPT !.kind = "list", !.code = 200,
                  !.projects = ProjectEntries(Len(ProjectList))]

(***************************************************************************)
(* Suspended handlers and fan-outs                                         *)
(***************************************************************************)
IdleHandler == [proj |-> "", step |-> 0, pc |-> "idle", url |-> Nothing, run |-> 0]

IdleRun ==
    [proj |-> "", step |-> 0, tag |-> 0, settled |-> TRUE, unit |-> <<>>,
     segs |-> <<>>, kf |-> <<>>]

HasFreeHandler == \E h \in HandlerIds : handlers[h].pc = "idle"
FreeHandler == CHOOSE h \in HandlerIds :
    handlers[h].pc = "idle" /\ \A g \in HandlerIds : handlers[g].pc = "idle" => h <= g

HasFreeRun == \E r \in RunIds : runs[r].step = 0
FreeRun == CHOOSE r \in RunIds :
    runs[r].step = 0 /\ \A q \in RunIds : runs[q].step = 0 => r <= q

\* The state after construction: no run, no suspended request; the project
\* directories are given by the specification.
ServerIdle ==
    /\ running = [p \in Projects |-> Nothing]
    /\ store = [p \in Projects |-> NoDir]
    /\ handlers = [h \in HandlerIds |-> IdleHandler]
    /\ runs = [r \in RunIds |-> IdleRun]
    /\ req = NoReq
    /\ res = NoRes

\* The URL a generation call returns: tag (drawn when the call is made)
\* tells the calls of different runs apart, i is the index of the keyframe
\* (-1 for the character image).
Url(tag, i) == <<tag, i>>

(***************************************************************************)
(* POST /api/projects/:id/step/:stepNum                                    *)
(***************************************************************************)
\* !description
Falsy(body) == body = Nothing \/ Get(body) = ""

\* step1 written with a fresh directory: rm -r, mkdir and write input.txt
step1Fresh(st, description) ==
    [NoDir EXCEPT !.exists = TRUE, !.input = Some(description)]

\* step1(outDir, description): mkdir -p and write input.txt
step1(st, description) ==
    [st EXCEPT !.exists = TRUE, !.input = Some(description)]

\* The request passes the range check and the check for a run in flight.
Admitted(p, stepNum) == ~OutOfRange(stepNum) /\ ~hasRunning(p)

\* The request is for step k.
IsStep(stepNum, k) == ~stepNum.nan /\ stepNum.n = k

\* The handler suspends at its first await.
Suspend(p, k, pc, run) ==
    /\ HasFreeHandler
    /\ handlers' = [handlers EXCEPT ![FreeHandler] =
            [IdleHandler EXCEPT !.proj = p, !.step = k, !.pc = pc, !.run = run]]
    /\ running' = runningSet(running, p, Num(k))
    /\ res' = NoRes

\* The step of a suspended handler h returns ("") or throws (error), with
\* the directory left as st: the response is sent and the finally block runs.
Finish(h, st, error) ==
    LET p == handlers[h].proj
        r == OutcomeRes(p, st, error)
    IN  /\ store' = [store EXCEPT ![p] = st]
        /\ res' = r
        /\ running' = finallyRunning(running, p, r.code)
        /\ handlers' = [handlers EXCEPT ![h] = IdleHandler]

\* The step of a request throws before its first await: running.set, the
\* 500 response and the finally block happen in one turn.
FailAtOnce(p, stepNum, error) ==
    /\ res' = ErrorRes(p, 500, error)
    /\ running' = finallyRunning(runningSet(running, p, stepNum), p, 500)
    /\ UNCHANGED <<store, handlers, runs>>

\* 400: stepNum must be 1-6
RejectStepNum(p, param) ==
    LET stepNum == parseInt(param)
    IN  /\ OutOfRange(stepNum)
        /\ req' = StepReq(p, stepNum)
        /\ res' = ErrorRes(p, 400, "stepNum must be 1-6")
        /\ UNCHANGED <<running, store, handlers, runs>>
        /\ UNCHANGED detectVars
        /\ UNCHANGED clientVars

\* A mutant of RejectRunning: the check for a run in flight is made inside
\* the try block, so the finally block deletes the entry of the run in flight.
RejectRunningInsideTry(p, param) ==
    LET stepNum == parseInt(param)
    IN  /\ ~OutOfRange(stepNum)
        /\ hasRunning(p)
        /\ req' = StepReq(p, stepNum)
        /\ res' = ErrorRes(p, 409, "Step is already running for this project")
        /\ running' = finallyRunning(running, p, 409)
        /\ UNCHANGED <<store, handlers, runs>>
        /\ UNCHANGED detectVars
        /\ UNCHANGED clientVars

\* 409: a step is already running for this project
RejectRunning(p, param) ==
    LET stepNum == parseInt(param)
    IN  /\ ~OutOfRange(stepNum)
        /\ hasRunning(p)
        /\ req' = StepReq(p, stepNum)
        /\ res' = ErrorRes(p, 409, "Step is already running for this project")
        /\ UNCHANGED <<running, store, handlers, runs>>
        /\ UNCHANGED detectVars
        /\ UNCHANGED clientVars

\* A stepNum that is NaN passes both checks and matches no case of the
\* switch: the status is sent and the entry set is deleted again.
RunNoStep(p, param) ==
    LET stepNum == parseInt(param)
    IN  /\ Admitted(p, stepNum)
        /\ stepNum.nan
        /\ req' = StepReq(p, stepNum)
        /\ res' = StepRes(p, store[p])
        /\ running' = finallyRunning(runningSet(running, p, stepNum), p, 200)
        /\ UNCHANGED <<store, handlers, runs>>
        /\ UNCHANGED detectVars
        /\ UNCHANGED clientVars

\* case 1: synchronous
RunStep1(p, param, body) ==
    LET stepNum == parseInt(param)
        st == IF Falsy(body) THEN store[p] ELSE step1(store[p], Get(body))
        r == IF Falsy(body)
             THEN ErrorRes(p, 400, "description required for step 1")
             ELSE StepRes(p, st)
    IN  /\ Admitted(p, stepNum)
        /\ IsStep(stepNum, 1)
        /\ req' = StepReq(p, stepNum)
        /\ store' = [store EXCEPT ![p] = st]
        /\ res' = r
        /\ running' = finallyRunning(runningSet(running, p, stepNum), p, r.code)
        /\ UNCHANGED <<handlers, runs>>
        /\ UNCHANGED detectVars
        /\ UNCHANGED clientVars

\* case 2: step2 reads input.txt and awaits callLLM
BeginStep2(p, param) ==
    LET stepNum == parseInt(param)
    IN  /\ Admitted(p, stepNum)
        /\ IsStep(stepNum, 2)
        /\ req' = StepReq(p, stepNum)
        /\ IF ~IsSome(store[p].input)
           THEN FailAtOnce(p, stepNum, "ENOENT: input.txt")
           ELSE Suspend(p, 2, "llm", 0) /\ UNCHANGED <<store, runs>>
        /\ UNCHANGED detectVars
        /\ UNCHANGED clientVars

\* callLLM settles: the response is parsed, validated and written
LLMReturns(h, outcome) ==
    LET p == handlers[h].proj
        result == step2Result(outcome)
        st == IF IsSome(result.written)
              THEN [store[p] EXCEPT !.script = result.written]
              ELSE store[p]
    IN  /\ handlers[h].pc = "llm"
        /\ req' = NoReq
        /\ Finish(h, st, result.error)
        /\ UNCHANGED runs
        /\ UNCHANGED detectVars
        /\ UNCHANGED clientVars

\* A mutant of BeginStep3: generateImage is called before script.json is
\* read, so the call is made whether the file is there or not.
BeginStep3CallsFirst(p, param) ==
    LET stepNum == parseInt(param)
    IN  /\ Admitted(p, stepNum)
        /\ IsStep(stepNum, 3)
        /\ req' = StepReq(p, stepNum)
        /\ Suspend(p, 3, "image", 0)
        /\ UNCHANGED <<store, runs>>
        /\ UNCHANGED detectVars
        /\ UNCHANGED clientVars

\* case 3: step3 reads script.json and awaits generateImage
BeginStep3(p, param) ==
    LET stepNum == parseInt(param)
    IN  /\ Admitted(p, stepNum)
        /\ IsStep(stepNum, 3)
        /\ req' = StepReq(p, stepNum)
        /\ IF ~IsSome(store[p].script)
           THEN FailAtOnce(p, stepNum, "ENOENT: script.json")
           ELSE Suspend(p, 3, "image", 0) /\ UNCHANGED <<store, runs>>
        /\ UNCHANGED detectVars
        /\ UNCHANGED clientVars

\* generateImage of step 3 settles
ImageReturns(h, ok, tag) ==
    /\ handlers[h].pc = "image"
    /\ req' = NoReq
    /\ IF ok
       THEN /\ handlers' = [handlers EXCEPT ![h].pc = "download",
                                            ![h].url = Some(Url(tag, -1))]
            /\ res' = NoRes
            /\ UNCHANGED <<running, store>>
       ELSE Finish(h, store[handlers[h].proj], "MiniMax image error")
    /\ UNCHANGED runs
    /\ UNCHANGED detectVars
    /\ UNCHANGED clientVars

\* A mutant of CharacterDownloaded: character_url.txt is written before the
\* download is awaited, so it is written also when the download fails.
CharacterUrlWrittenFirst(h, ok) ==
    LET p == handlers[h].proj
        st == [store[p] EXCEPT !.character = handlers[h].url,
                               !.character_url = handlers[h].url]
        early == [store[p] EXCEPT !.character_url = handlers[h].url]
    IN  /\ handlers[h].pc = "download"
        /\ req' = NoReq
        /\ IF ok THEN Finish(h, st, "") ELSE Finish(h, early, "Download failed")
        /\ UNCHANGED runs
        /\ UNCHANGED detectVars
        /\ UNCHANGED clientVars

\* downloadFile of step 3 settles; character_url.txt is written after it
CharacterDownloaded(h, ok) ==
    LET p == handlers[h].proj
        st == [store[p] EXCEPT !.character = handlers[h].url,
                               !.character_url = handlers[h].url]
    IN  /\ handlers[h].pc = "download"
        /\ req' = NoReq
        /\ IF ok THEN Finish(h, st, "") ELSE Finish(h, store[p], "Download failed")
        /\ UNCHANGED runs
        /\ UNCHANGED detectVars
        /\ UNCHANGED clientVars

\* The segment files segment1.mp4 .. segment{count}.mp4 all exist.
SegmentsPresent(st, count) ==
    \A k \in 1..count : k <= Len(st.segment) /\ IsSome(st.segment[k])

\* case 6: synchronous; ffmpeg (ok: whether the external tool succeeds)
\* cannot succeed without the files of its list.
RunStep6(p, param, ok) ==
    LET stepNum == parseInt(param)
        count == Len(Get(store[p].script).segments.items)
        listed == [store[p] EXCEPT !.list = Some(count)]
        done == ok /\ count >= 1 /\ SegmentsPresent(listed, count)
        st == IF done
              THEN [listed EXCEPT !.movie = Some(SubSeq(listed.segment, 1, count))]
              ELSE listed
    IN  /\ Admitted(p, stepNum)
        /\ IsStep(stepNum, 6)
        /\ req' = StepReq(p, stepNum)
        /\ IF ~IsSome(store[p].script)
           THEN FailAtOnce(p, stepNum, "ENOENT: script.json")
           ELSE /\ store' = [store EXCEPT ![p] = st]
                /\ res' = OutcomeRes(p, st, IF done THEN "" ELSE "Command failed: ffmpeg")
                /\ running' = finallyRunning(runningSet(running, p, stepNum), p, res'.code)
                /\ UNCHANGED <<handlers, runs>>
        /\ UNCHANGED detectVars
        /\ UNCHANGED clientVars

(***************************************************************************)
(* The fan-out of step 4 and step 5: limit = pLimit(5), Promise.all        *)
(***************************************************************************)
\* A unit is queued in the limiter, in flight at one of its awaits, or over.
InFlightStates == {"gen", "dl", "submit", "poll", "resolve"}

ActiveCount(unit) ==
    Cardinality({u \in DOMAIN unit : unit[u] \in InFlightStates})

Queued(unit) == {u \in DOMAIN unit : unit[u] = "queued"}

Over(unit) == \A u \in DOMAIN unit : unit[u] \in {"done", "failed"}

\* A mutant of CanStart: the limiter admits one unit too many.
CanStartOffByOne(unit) == ActiveCount(unit) <= Limit

\* p-limit: a queued function is started while fewer than Limit are running
CanStart(unit) == ActiveCount(unit) < Limit

\* p-limit starts queued units in the order of the calls of limit(), as
\* long as it can. A unit of step 4 starts by calling generateImage; a unit
\* of step 5 reads segment.script first, which throws on a null segment, and
\* then calls generateVideo, which submits the task.
RECURSIVE dispatch(_, _, _)
dispatch(unit, step, segs) ==
    IF CanStart(unit) /\ Queued(unit) # {}
    THEN LET u == CHOOSE q \in Queued(unit) : \A v \in Queued(unit) : q <= v
             first == IF step = 4 THEN "gen"
                      ELSE IF segs[u] = "null" THEN "failed"
                      ELSE "submit"
         IN  dispatch([unit EXCEPT ![u] = first], step, segs)
    ELSE unit

\* JSON.stringify(keyframeUrls): the URLs in the order of script.keyframes
keyframeUrls(run) == [u \in DOMAIN run.unit |-> Url(run.tag, u - 1)]

\* keyframeUrls[i] of step 5: undefined beyond the end of the list
UrlAt(kf, k) == IF k <= Len(kf) THEN Some(kf[k]) ELSE Nothing

\* A mutant of videoOf: the last frame is taken at the index of the first.
videoOfSameFrame(run, u) ==
    [tag |-> run.tag, first |-> UrlAt(run.kf, u), last |-> UrlAt(run.kf, u)]

\* The video generateVideo(segment.script, keyframeUrls[i], keyframeUrls[i + 1])
\* returns for unit u = i + 1.
videoOf(run, u) ==
    [tag |-> run.tag, first |-> UrlAt(run.kf, u), last |-> UrlAt(run.kf, u + 1)]

\* The suspended handler that awaits run r.
HandlerOf(r) == CHOOSE h \in HandlerIds :
    handlers[h].pc = "fanout" /\ handlers[h].run = r

\* The run record once its units are as in unit: gone when Promise.all has
\* settled and no unit is left.
runAfter(run, unit, settled) ==
    IF settled /\ Over(unit) THEN IdleRun
    ELSE [run EXCEPT !.unit = unit, !.settled = settled]

\* A mutant of Settle: the step waits for every unit to be over, whether it
\* failed or not (Promise.allSettled), and then goes on as after a success.
SettleAllSettled(r, unit, st) ==
    LET run == runs[r]
        p == run.proj
        written == IF run.step = 4
                   THEN [st EXCEPT !.keyframes_json = Some(keyframeUrls(run))]
                   ELSE st
    IN  IF run.settled \/ ~Over(unit)
        THEN /\ store' = [store EXCEPT ![p] = st]
             /\ runs' = [runs EXCEPT ![r] = runAfter(run, unit, run.settled)]
             /\ res' = NoRes
             /\ UNCHANGED <<running, handlers>>
        ELSE /\ runs' = [runs EXCEPT ![r] = runAfter(run, unit, TRUE)]
             /\ Finish(HandlerOf(r), written, "")

\* A mutant of Settle: the step goes on as soon as one unit is done
\* (Promise.race), without waiting for the others.
SettleFirstDone(r, unit, st) ==
    LET run == runs[r]
        p == run.proj
        failed == \E u \in DOMAIN unit : unit[u] = "failed"
        oneDone == \E u \in DOMAIN unit : unit[u] = "done"
        written == IF run.step = 4
                   THEN [st EXCEPT !.keyframes_json = Some(keyframeUrls(run))]
                   ELSE st
    IN  IF run.settled \/ (~failed /\ ~oneDone)
        THEN /\ store' = [store EXCEPT ![p] = st]
             /\ runs' = [runs EXCEPT ![r] = runAfter(run, unit, run.settled)]
             /\ res' = NoRes
             /\ UNCHANGED <<running, handlers>>
        ELSE /\ runs' = [runs EXCEPT ![r] = runAfter(run, unit, TRUE)]
             /\ IF failed
                THEN Finish(HandlerOf(r), st, "fan-out unit failed")
                ELSE Finish(HandlerOf(r), written, "")

\* A unit of run r has moved: unit is the state of the units after it and
\* after the limiter has started what it can, st the directory. Promise.all
\* rejects on the first failed unit and resolves when every unit is done;
\* step 4 then writes keyframes.json. Units of a run whose Promise.all has
\* settled go on, unobserved.
Settle(r, unit, st) ==
    LET run == runs[r]
        p == run.proj
        failed == \E u \in DOMAIN unit : unit[u] = "failed"
        allDone == \A u \in DOMAIN unit : unit[u] = "done"
        written == IF run.step = 4
                   THEN [st EXCEPT !.keyframes_json = Some(keyframeUrls(run))]
                   ELSE st
    IN  IF run.settled \/ (~failed /\ ~allDone)
        THEN /\ store' = [store EXCEPT ![p] = st]
             /\ runs' = [runs EXCEPT ![r] = runAfter(run, unit, run.settled)]
             /\ res' = NoRes
             /\ UNCHANGED <<running, handlers>>
        ELSE /\ runs' = [runs EXCEPT ![r] = runAfter(run, unit, TRUE)]
             /\ IF failed
                THEN Finish(HandlerOf(r), st, "fan-out unit failed")
                ELSE Finish(HandlerOf(r), written, "")

\* Unit u of run r, at the await named by phase, moves to next.
UnitResumes(r, u, step, phase, next, st) ==
    /\ runs[r].step = step
    /\ u \in DOMAIN runs[r].unit
    /\ runs[r].unit[u] = phase
    /\ Settle(r, dispatch([runs[r].unit EXCEPT ![u] = next], step, runs[r].segs), st)
    /\ UNCHANGED detectVars
    /\ UNCHANGED clientVars

UnitMoves(r, u, step, phase, next, st) ==
    /\ req' = NoReq
    /\ UnitResumes(r, u, step, phase, next, st)

\* case 4: step4 reads script.json and character_url.txt and fans out
BeginStep4(p, param, tag) ==
    LET stepNum == parseInt(param)
        script == Get(store[p].script)
        count == Len(script.keyframes.items)
        unit == dispatch([u \in 1..count |-> "queued"], 4, <<>>)
    IN  /\ Admitted(p, stepNum)
        /\ IsStep(stepNum, 4)
        /\ req' = StepReq(p, stepNum)
        /\ IF ~IsSome(store[p].script)
           THEN FailAtOnce(p, stepNum, "ENOENT: script.json")
           ELSE IF ~IsSome(store[p].character_url)
           THEN FailAtOnce(p, stepNum, "ENOENT: character_url.txt")
           ELSE IF ~script.keyframes.truthy
           THEN FailAtOnce(p, stepNum, "Script is missing keyframes. Re-run step 2 to generate a new script.")
           ELSE /\ HasFreeRun
                /\ runs' = [runs EXCEPT ![FreeRun] =
                        [proj |-> p, step |-> 4, tag |-> tag, settled |-> FALSE,
                         unit |-> unit, segs |-> <<>>, kf |-> <<>>]]
                /\ Suspend(p, 4, "fanout", FreeRun)
                /\ UNCHANGED store
        /\ UNCHANGED detectVars
        /\ UNCHANGED clientVars

\* generateImage of keyframe u - 1 settles
KeyframeImageReturns(r, u, ok) ==
    UnitMoves(r, u, 4, "gen", IF ok THEN "dl" ELSE "failed",
              store[runs[r].proj])

\* downloadFile of keyframe u - 1 settles
KeyframeDownloaded(r, u, ok) ==
    LET st == store[runs[r].proj]
    IN  UnitMoves(r, u, 4, "dl", IF ok THEN "done" ELSE "failed",
                  IF ok
                  THEN [st EXCEPT !.keyframe = WriteAt(st.keyframe, u, Url(runs[r].tag, u - 1))]
                  ELSE st)

\* case 5: step5 reads script.json and keyframes.json and fans out
BeginStep5(p, param, tag) ==
    LET stepNum == parseInt(param)
        segs == Get(store[p].script).segments.items
        unit == dispatch([u \in 1..Len(segs) |-> "queued"], 5, segs)
        run == [proj |-> p, step |-> 5, tag |-> tag, settled |-> FALSE,
                unit |-> unit, segs |-> segs, kf |-> Get(store[p].keyframes_json)]
    IN  /\ Admitted(p, stepNum)
        /\ IsStep(stepNum, 5)
        /\ req' = StepReq(p, stepNum)
        /\ IF ~IsSome(store[p].script)
           THEN FailAtOnce(p, stepNum, "ENOENT: script.json")
           ELSE IF ~IsSome(store[p].keyframes_json)
           THEN FailAtOnce(p, stepNum, "ENOENT: keyframes.json")
           ELSE IF segs = <<>>
           THEN /\ res' = StepRes(p, store[p])
                /\ running' = finallyRunning(runningSet(running, p, stepNum), p, 200)
                /\ UNCHANGED <<store, handlers, runs>>
           ELSE IF \E u \in DOMAIN unit : unit[u] = "failed"
           THEN /\ HasFreeRun
                /\ runs' = [runs EXCEPT ![FreeRun] = runAfter(run, unit, TRUE)]
                /\ res' = ErrorRes(p, 500, "TypeError: Cannot read properties of null")
                /\ running' = finallyRunning(runningSet(running, p, stepNum), p, 500)
                /\ UNCHANGED <<store, handlers>>
           ELSE /\ HasFreeRun
                /\ runs' = [runs EXCEPT ![FreeRun] = run]
                /\ Suspend(p, 5, "fanout", FreeRun)
                /\ UNCHANGED store
        /\ UNCHANGED detectVars
        /\ UNCHANGED clientVars

\* The task submission of generateVideo settles
VideoSubmitted(r, u, ok) ==
    UnitMoves(r, u, 5, "submit", IF ok THEN "poll" ELSE "failed",
              store[runs[r].proj])

\* The statuses a poll of pollVideoTask can see: the HTTP request fails, the
\* task succeeded (with or without a file_id), it failed, or it is not over.
PollStatuses == {"HttpError", "Success", "SuccessNoFile", "Fail", "Processing"}

\* A mutant of pollNext: the loop gives up on a task that is not over
\* instead of sleeping and polling again.
pollNextGivesUp(status) ==
    CASE status = "Success" -> "resolve"
      [] status \in {"HttpError", "Fail", "Processing"} -> "failed"
      [] OTHER -> "poll"

\* One poll of pollVideoTask returns: Success with a file_id ends the loop, a
\* failed request or Fail throws, anything else sleeps and polls again.
pollNext(status) ==
    CASE status = "Success" -> "resolve"
      [] status \in {"HttpError", "Fail"} -> "failed"
      [] OTHER -> "poll"

\* The reply to a poll arrives: the status the provider reports.
PollReply(status) == [kind |-> "poll", id |-> status, stepNum |-> NaN]

VideoPolled(r, u, status) ==
    /\ req' = PollReply(status)
    /\ UnitResumes(r, u, 5, "poll", pollNext(status), store[runs[r].proj])

\* getFileUrl settles
VideoUrlResolved(r, u, ok) ==
    UnitMoves(r, u, 5, "resolve", IF ok THEN "dl" ELSE "failed",
              store[runs[r].proj])

\* downloadFile of segment u settles
SegmentDownloaded(r, u, ok) ==
    LET st == store[runs[r].proj]
    IN  UnitMoves(r, u, 5, "dl", IF ok THEN "done" ELSE "failed",
                  IF ok
                  THEN [st EXCEPT !.segment = WriteAt(st.segment, u, videoOf(runs[r], u))]
                  ELSE st)

(***************************************************************************)
(* GET /api/projects/:id/status and GET /api/projects                      *)
(***************************************************************************)
GetStatus(p) ==
    /\ req' = StatusReq(p)
    /\ res' = StatusRes(p)
    /\ UNCHANGED <<running, store, handlers, runs>>
    /\ UNCHANGED detectVars
    /\ UNCHANGED clientVars

GetProjects ==
    /\ req' = ListReq
    /\ res' = ListRes
    /\ UNCHANGED <<running, store, handlers, runs>>
    /\ UNCHANGED detectVars
    /\ UNCHANGED clientVars

(***************************************************************************)
(* POST /api/projects                                                      *)
(***************************************************************************)
\* The readings of Date.now(), in the order of time.
Ticks == 1..Len(ProjectList)

\* String(Date.now()): the id made from the reading t. Different readings
\* give different ids, in the order of the readings.
idOfTick(t) == ProjectList[t]

\* Date.now() does not go back: the reading t is not before the reading of
\* a creation that was made (two calls may get the same reading).
ClockAt(t) == \A k \in Ticks : store[idOfTick(k)].exists => k <= t

CreateReq == [kind |-> "create", id |-> "", stepNum |-> NaN]

\* res.json({ id, completedStep: 1 })
CreatedRes(id) ==
    [NoRes EXCEPT !.kind = "create", !.id = id, !.code = 200,
                  !.completedStep = 1]

\* Create project (runs step 1)
CreateProject(t, body) ==
    /\ ClockAt(t)
    /\ req' = CreateReq
    /\ IF Falsy(body)
       THEN /\ res' = [ErrorRes("", 400, "description required") EXCEPT
                            !.kind = "create"]
            /\ UNCHANGED store
       ELSE /\ store' = [store EXCEPT ![idOfTick(t)] =
                            step1(store[idOfTick(t)], Get(body))]
            /\ res' = CreatedRes(idOfTick(t))
    /\ UNCHANGED <<running, handlers, runs>>
    /\ UNCHANGED detectVars
    /\ UNCHANGED clientVars

(***************************************************************************)
(* Inputs and initial directories of the specifications                    *)
(***************************************************************************)
\* "Split the long take into 3 to 6 segments" (the prompt of step 2)
MinSegments == 3
MaxSegments == 6

\* The :stepNum parameters of the requests: "0" .. "7" and a text that is
\* no number.
StepParams == {Decimal(k) : k \in 0..7} \cup {<<"x">>}

Description == "a lone astronaut"

\* A script of n segments and n + 1 keyframes.
GoodScript(n) ==
    [segments |-> JsArray([k \in 1..n |-> "object"]),
     keyframes |-> JsArray([k \in 1..(n + 1) |-> "text"]),
     mainCharacterDescription |-> JsText(TRUE)]

\* The directory after steps 1 to 6 have run once with a script of n
\* segments, every generation call made with the same tag.
BuiltDir(n, tag) ==
    LET kf == [k \in 1..(n + 1) |-> Url(tag, k - 1)]
        seg == [k \in 1..n |->
                  Some([tag |-> tag, first |-> Some(kf[k]), last |-> Some(kf[k + 1])])]
    IN  [exists |-> TRUE,
         input |-> Some(Description),
         script |-> Some(GoodScript(n)),
         character |-> Some(Url(tag, -1)),
         character_url |-> Some(Url(tag, -1)),
         keyframe |-> [k \in 1..(n + 1) |-> Some(kf[k])],
         keyframes_json |-> Some(kf),
         segment |-> seg,
         list |-> Some(n),
         movie |-> Some(seg)]

\* No unit of an earlier fan-out is left. The specifications other than
\* SpecZombie follow one fan-out at a time: step 4 or step 5 is requested
\* once the units of the fan-out before it are over (the other steps are
\* requested at any time).
Quiescent == \A r \in RunIds : runs[r].step = 0

\* The handleRun calls that can be suspended at await runStep at the same
\* time.
MaxClientCalls == 2
CallIds == 1..MaxClientCalls

\* No handleRun call is suspended in slot c.
IdleCall == [pc |-> "idle", stepNum |-> 0, auto |-> FALSE]

\* The project view after its first render: useRef(false), useState(true).
ClientIdle ==
    /\ runningRef = FALSE
    /\ auto = TRUE
    /\ calls = [c \in CallIds |-> IdleCall]
    /\ clicked = "none"

DetectIdle ==
    /\ dirExists = FALSE
    /\ dirFiles = {}
    /\ dirOp = "scan"
    /\ lastStatus = detectStatus(FALSE, {})
    /\ prevStatus = lastStatus

\* The server after construction, the directory of project p being dir.
ServerWith(p, dir) ==
    /\ running = [q \in Projects |-> Nothing]
    /\ store = [q \in Projects |-> IF q = p THEN dir ELSE NoDir]
    /\ handlers = [h \in HandlerIds |-> IdleHandler]
    /\ runs = [r \in RunIds |-> IdleRun]
    /\ req = NoReq
    /\ res = NoRes

(***************************************************************************)
(* Spec: the step requests, the run tracking and the status requests of    *)
(* one project whose directory is absent or complete                       *)
(***************************************************************************)
\* The project of the requests.
GuardProjects == {"p1"}

\* The number of segments of the script.
GuardSegments == 1

\* The request bodies of step 1: without a description, or an empty one
\* (step 1 writing input.txt is part of SpecScript).
GuardBodies == {Nothing, Some("")}

GuardOutcomes == {LLMError, LLMObject(GoodScript(GuardSegments))}

GuardTags == {1}

Init ==
    /\ \E dir \in {NoDir, BuiltDir(GuardSegments, 1)} : ServerWith("p1", dir)
    /\ DetectIdle
    /\ ClientIdle

Next ==
    \/ \E p \in GuardProjects, param \in StepParams : RejectStepNum(p, param)
    \/ \E p \in GuardProjects, param \in StepParams : RejectRunning(p, param)
    \/ \E p \in GuardProjects, param \in StepParams : RunNoStep(p, param)
    \/ \E p \in GuardProjects, param \in StepParams, body \in GuardBodies :
            RunStep1(p, param, body)
    \/ \E p \in GuardProjects, param \in StepParams : BeginStep2(p, param)
    \/ \E h \in HandlerIds, outcome \in GuardOutcomes : LLMReturns(h, outcome)
    \/ \E p \in GuardProjects, param \in StepParams : BeginStep3(p, param)
    \/ \E h \in HandlerIds, ok \in BOOLEAN, tag \in GuardTags :
            ImageReturns(h, ok, tag)
    \/ \E h \in HandlerIds, ok \in BOOLEAN : CharacterDownloaded(h, ok)
    \/ \E p \in GuardProjects, param \in StepParams, tag \in GuardTags :
            Quiescent /\ BeginStep4(p, param, tag)
    \/ \E r \in RunIds, u \in 1..(GuardSegments + 1), ok \in BOOLEAN :
            KeyframeImageReturns(r, u, ok)
    \/ \E r \in RunIds, u \in 1..(GuardSegments + 1), ok \in BOOLEAN :
            KeyframeDownloaded(r, u, ok)
    \/ \E p \in GuardProjects, param \in StepParams, tag \in GuardTags :
            Quiescent /\ BeginStep5(p, param, tag)
    \/ \E r \in RunIds, u \in 1..GuardSegments, ok \in BOOLEAN :
            VideoSubmitted(r, u, ok)
    \/ \E r \in RunIds, u \in 1..GuardSegments, status \in PollStatuses :
            VideoPolled(r, u, status)
    \/ \E r \in RunIds, u \in 1..GuardSegments, ok \in BOOLEAN :
            VideoUrlResolved(r, u, ok)
    \/ \E r \in RunIds, u \in 1..GuardSegments, ok \in BOOLEAN :
            SegmentDownloaded(r, u, ok)
    \/ \E p \in GuardProjects, param \in StepParams, ok \in BOOLEAN :
            RunStep6(p, param, ok)
    \/ \E p \in GuardProjects : GetStatus(p)
    \/ GetProjects

Spec == Init /\ [][Next]_vars

(***************************************************************************)
(* SpecProjects: steps 1 to 3 requested for two projects                   *)
(***************************************************************************)
ProjectParams == {Decimal(k) : k \in 1..3}

ProjectBodies == {Nothing, Some(Description)}

InitProjects ==
    /\ ServerIdle
    /\ DetectIdle
    /\ ClientIdle

NextProjects ==
    \/ \E p \in Projects, param \in ProjectParams : RejectRunning(p, param)
    \/ \E p \in Projects, param \in ProjectParams, body \in ProjectBodies :
            RunStep1(p, param, body)
    \/ \E p \in Projects, param \in ProjectParams : BeginStep2(p, param)
    \/ \E h \in HandlerIds, outcome \in GuardOutcomes : LLMReturns(h, outcome)
    \/ \E p \in Projects, param \in ProjectParams : BeginStep3(p, param)
    \/ \E h \in HandlerIds, ok \in BOOLEAN, tag \in GuardTags :
            ImageReturns(h, ok, tag)
    \/ \E h \in HandlerIds, ok \in BOOLEAN : CharacterDownloaded(h, ok)
    \/ \E p \in Projects : GetStatus(p)
    \/ GetProjects

SpecProjects == InitProjects /\ [][NextProjects]_vars

(***************************************************************************)
(* SpecScript: steps 1 and 2 of one project over generated payloads        *)
(***************************************************************************)
\* The longest segments array of a generated payload.
MaxPayloadSegments == 7

\* Arrays of segment objects, and the same with null as the last element.
SegmentArrays ==
    {[k \in 1..n |-> "object"] : n \in 0..MaxPayloadSegments}
        \cup {[k \in 1..n |-> IF k = n THEN "null" ELSE "object"] :
                n \in 1..MaxPayloadSegments}

KeyframeArrays == {[k \in 1..n |-> "text"] : n \in 0..(MaxPayloadSegments + 1)}

\* The objects JSON.parse can return for a generated text.
Payloads ==
    [segments : {Absent, JsText(TRUE)} \cup {JsArray(a) : a \in SegmentArrays},
     keyframes : {Absent, JsText(TRUE)} \cup {JsArray(a) : a \in KeyframeArrays},
     mainCharacterDescription : {Absent, JsText(FALSE), JsText(TRUE)}]

ScriptOutcomes ==
    {LLMError, LLMNoBraces, LLMSyntax} \cup {LLMObject(s) : s \in Payloads}

ScriptParams == {Decimal(k) : k \in 1..2}

ScriptBodies == {Nothing, Some(Description)}

InitScript ==
    /\ ServerIdle
    /\ DetectIdle
    /\ ClientIdle

NextScript ==
    \/ \E param \in ScriptParams : RejectRunning("p1", param)
    \/ \E param \in ScriptParams, body \in ScriptBodies :
            RunStep1("p1", param, body)
    \/ \E param \in ScriptParams : BeginStep2("p1", param)
    \/ \E h \in HandlerIds, outcome \in ScriptOutcomes : LLMReturns(h, outcome)
    \/ GetStatus("p1")

SpecScript == InitScript /\ [][NextScript]_vars

(***************************************************************************)
(* SpecFanout: steps 4 and 5 of one complete project whose script has the  *)
(* most segments the prompt asks for                                       *)
(***************************************************************************)
FanoutParams == {Decimal(k) : k \in 4..5}

FanoutUnits == 1..(MaxSegments + 1)

\* The poll replies of SpecFanout: one that ends the polling with a file,
\* one that makes the unit fail, one that makes it poll again.
FanoutStatuses == {"Success", "Fail", "Processing"}

InitFanout ==
    /\ ServerWith("p1", BuiltDir(MaxSegments, 1))
    /\ DetectIdle
    /\ ClientIdle

NextFanout ==
    \/ \E param \in FanoutParams : Quiescent /\ BeginStep4("p1", param, 1)
    \/ \E r \in RunIds, u \in FanoutUnits, ok \in BOOLEAN :
            KeyframeImageReturns(r, u, ok)
    \/ \E r \in RunIds, u \in FanoutUnits, ok \in BOOLEAN :
            KeyframeDownloaded(r, u, ok)
    \/ \E param \in FanoutParams : Quiescent /\ BeginStep5("p1", param, 1)
    \/ \E r \in RunIds, u \in FanoutUnits, ok \in BOOLEAN :
            VideoSubmitted(r, u, ok)
    \/ \E r \in RunIds, u \in FanoutUnits, status \in FanoutStatuses :
            VideoPolled(r, u, status)
    \/ \E r \in RunIds, u \in FanoutUnits, ok \in BOOLEAN :
            VideoUrlResolved(r, u, ok)
    \/ \E r \in RunIds, u \in FanoutUnits, ok \in BOOLEAN :
            SegmentDownloaded(r, u, ok)

SpecFanout == InitFanout /\ [][NextFanout]_vars

(***************************************************************************)
(* Progress inference over arbitrary directory listings                    *)
(***************************************************************************)
\* The highest index of the numbered names drawn for the listings.
MaxIndex == 0

\* An index of more than one digit, for the \d+ of the patterns.
LongIndex == 10

\* Names of the naming convention.
ConventionNames ==
    {InputTxt, ScriptJson, CharacterJpg, MovieMp4, KeyframeJpg(LongIndex)}
        \cup {KeyframeJpg(i) : i \in 0..MaxIndex}
        \cup {SegmentMp4(i) : i \in 1..(MaxIndex + 1)}

\* Names that are no defining artifact of the convention.
OtherNames ==
    {OutputMp4, KeyframesJson,
     StemKeyframe \o ExtJpg,
     StemSegment \o <<"x">> \o ExtMp4}

DirNames == ConventionNames \cup OtherNames

InitDetect ==
    /\ ClientIdle
    /\ dirExists \in BOOLEAN
    /\ dirFiles \in SUBSET DirNames
    /\ (~dirExists => dirFiles = {})
    /\ dirOp = "scan"
    /\ lastStatus = detectStatus(dirExists, dirFiles)
    /\ prevStatus = lastStatus
    /\ ServerIdle

\* A file appears in the directory and the status is derived again.
AddFile(f) ==
    /\ dirExists
    /\ f \notin dirFiles
    /\ dirFiles' = dirFiles \cup {f}
    /\ dirOp' = "add"
    /\ prevStatus' = lastStatus
    /\ lastStatus' = detectStatus(dirExists, dirFiles')
    /\ UNCHANGED dirExists
    /\ UNCHANGED serverVars
    /\ UNCHANGED clientVars

\* A file is removed from the directory (an external file removal) and the
\* status is derived again.
RemoveFile(f) ==
    /\ dirExists
    /\ f \in dirFiles
    /\ dirFiles' = dirFiles \ {f}
    /\ dirOp' = "remove"
    /\ prevStatus' = lastStatus
    /\ lastStatus' = detectStatus(dirExists, dirFiles')
    /\ UNCHANGED dirExists
    /\ UNCHANGED serverVars
    /\ UNCHANGED clientVars

NextDetect ==
    \/ \E f \in DirNames : AddFile(f)
    \/ \E f \in DirNames : RemoveFile(f)

SpecDetect == InitDetect /\ [][NextDetect]_vars

(***************************************************************************)
(* SpecCreate: projects are created and steps 1 and 2 requested            *)
(***************************************************************************)
OtherDescription == "a city at night"

CreateBodies == {Nothing, Some(Description), Some(OtherDescription)}

CreateParams == {Decimal(k) : k \in 1..2}

InitCreate ==
    /\ ServerIdle
    /\ DetectIdle
    /\ ClientIdle

NextCreate ==
    \/ \E t \in Ticks, body \in CreateBodies : CreateProject(t, body)
    \/ \E p \in Projects, param \in CreateParams : RejectRunning(p, param)
    \/ \E p \in Projects, param \in CreateParams, body \in CreateBodies :
            RunStep1(p, param, body)
    \/ \E p \in Projects, param \in CreateParams : BeginStep2(p, param)
    \/ \E h \in HandlerIds, outcome \in GuardOutcomes : LLMReturns(h, outcome)
    \/ \E p \in Projects : GetStatus(p)
    \/ GetProjects

SpecCreate == InitCreate /\ [][NextCreate]_vars

(***************************************************************************)
(* SpecRerun: steps 3 to 5 are run again on a complete project; the calls  *)
(* of the runs return URLs that differ from the ones the directory holds   *)
(***************************************************************************)
RerunParams == {Decimal(k) : k \in 3..5}

RerunUnits == 1..(GuardSegments + 1)

InitRerun ==
    /\ ServerWith("p1", BuiltDir(GuardSegments, 0))
    /\ DetectIdle
    /\ ClientIdle

NextRerun ==
    \/ \E param \in RerunParams : RejectRunning("p1", param)
    \/ \E param \in RerunParams : BeginStep3("p1", param)
    \/ \E h \in HandlerIds, ok \in BOOLEAN, tag \in GuardTags :
            ImageReturns(h, ok, tag)
    \/ \E h \in HandlerIds, ok \in BOOLEAN : CharacterDownloaded(h, ok)
    \/ \E param \in RerunParams, tag \in GuardTags :
            Quiescent /\ BeginStep4("p1", param, tag)
    \/ \E r \in RunIds, u \in RerunUnits, ok \in BOOLEAN :
            KeyframeImageReturns(r, u, ok)
    \/ \E r \in RunIds, u \in RerunUnits, ok \in BOOLEAN :
            KeyframeDownloaded(r, u, ok)
    \/ \E param \in RerunParams, tag \in GuardTags :
            Quiescent /\ BeginStep5("p1", param, tag)
    \/ \E r \in RunIds, u \in RerunUnits, ok \in BOOLEAN :
            VideoSubmitted(r, u, ok)
    \/ \E r \in RunIds, u \in RerunUnits, status \in PollStatuses :
            VideoPolled(r, u, status)
    \/ \E r \in RunIds, u \in RerunUnits, ok \in BOOLEAN :
            VideoUrlResolved(r, u, ok)
    \/ \E r \in RunIds, u \in RerunUnits, ok \in BOOLEAN :
            SegmentDownloaded(r, u, ok)
    \/ GetStatus("p1")

SpecRerun == InitRerun /\ [][NextRerun]_vars

(***************************************************************************)
(* SpecStale: step 2 is run again on a complete project and gives a script *)
(* with one segment more; step 5 runs before and after it                  *)
(***************************************************************************)
StaleParams == {Decimal(2), Decimal(5)}

StaleOutcomes == {LLMObject(GoodScript(GuardSegments + 1))}

StaleUnits == 1..(GuardSegments + 1)

InitStale ==
    /\ ServerWith("p1", BuiltDir(GuardSegments, 0))
    /\ DetectIdle
    /\ ClientIdle

NextStale ==
    \/ \E param \in StaleParams : RejectRunning("p1", param)
    \/ \E param \in StaleParams : BeginStep2("p1", param)
    \/ \E h \in HandlerIds, outcome \in StaleOutcomes : LLMReturns(h, outcome)
    \/ \E param \in StaleParams, tag \in GuardTags :
            Quiescent /\ BeginStep5("p1", param, tag)
    \/ \E r \in RunIds, u \in StaleUnits, ok \in BOOLEAN :
            VideoSubmitted(r, u, ok)
    \/ \E r \in RunIds, u \in StaleUnits, status \in PollStatuses :
            VideoPolled(r, u, status)
    \/ \E r \in RunIds, u \in StaleUnits, ok \in BOOLEAN :
            VideoUrlResolved(r, u, ok)
    \/ \E r \in RunIds, u \in StaleUnits, ok \in BOOLEAN :
            SegmentDownloaded(r, u, ok)
    \/ GetStatus("p1")

SpecStale == InitStale /\ [][NextStale]_vars

(***************************************************************************)
(* SpecCharacter: steps 3 and 4 are run again on a complete project; the   *)
(* image calls of step 3 are numbered in the order they are made           *)
(***************************************************************************)
\* The most generation calls of step 3 that return an image.
MaxCalls == 2

CharacterTags == 1..MaxCalls

CharacterParams == {Decimal(k) : k \in 3..4}

\* The number of the generation call a URL came from.
tagOf(url) == url[1]

InitCharacter ==
    /\ ServerWith("p1", BuiltDir(GuardSegments, 0))
    /\ DetectIdle
    /\ ClientIdle

NextCharacter ==
    \/ \E param \in CharacterParams : RejectRunning("p1", param)
    \/ \E param \in CharacterParams : BeginStep3("p1", param)
    \/ \E h \in HandlerIds, ok \in BOOLEAN, tag \in CharacterTags :
            /\ tag = tagOf(Get(store["p1"].character)) + 1
            /\ ImageReturns(h, ok, tag)
    \/ \E h \in HandlerIds, ok \in BOOLEAN : CharacterDownloaded(h, ok)
    \/ \E param \in CharacterParams, tag \in GuardTags :
            Quiescent /\ BeginStep4("p1", param, tag)
    \/ \E r \in RunIds, u \in RerunUnits, ok \in BOOLEAN :
            KeyframeImageReturns(r, u, ok)
    \/ \E r \in RunIds, u \in RerunUnits, ok \in BOOLEAN :
            KeyframeDownloaded(r, u, ok)
    \/ GetStatus("p1")

SpecCharacter == InitCharacter /\ [][NextCharacter]_vars

(***************************************************************************)
(* SpecPipeline: a project is created and its steps 2 to 6 are requested   *)
(* in order, every provider call and the concatenation succeeding          *)
(***************************************************************************)
PipelineParams == {Decimal(k) : k \in 2..6}

PipelineOutcomes == {LLMObject(GoodScript(GuardSegments))}

\* The poll replies of a video task that succeeds.
PipelineStatuses == {"Processing", "Success"}

\* The step requested is the one after the last completed step.
InOrder(p, param) ==
    param = Decimal(statusOfDir(store[p]).completedStep + 1)

InitPipeline ==
    /\ ServerIdle
    /\ DetectIdle
    /\ ClientIdle

NextPipeline ==
    \/ CreateProject(1, Some(Description))
    \/ \E param \in PipelineParams : RejectRunning("p1", param)
    \/ \E param \in PipelineParams :
            InOrder("p1", param) /\ BeginStep2("p1", param)
    \/ \E h \in HandlerIds, outcome \in PipelineOutcomes :
            LLMReturns(h, outcome)
    \/ \E param \in PipelineParams :
            InOrder("p1", param) /\ BeginStep3("p1", param)
    \/ \E h \in HandlerIds, tag \in GuardTags : ImageReturns(h, TRUE, tag)
    \/ \E h \in HandlerIds : CharacterDownloaded(h, TRUE)
    \/ \E param \in PipelineParams, tag \in GuardTags :
            InOrder("p1", param) /\ BeginStep4("p1", param, tag)
    \/ \E r \in RunIds, u \in RerunUnits : KeyframeImageReturns(r, u, TRUE)
    \/ \E r \in RunIds, u \in RerunUnits : KeyframeDownloaded(r, u, TRUE)
    \/ \E param \in PipelineParams, tag \in GuardTags :
            InOrder("p1", param) /\ BeginStep5("p1", param, tag)
    \/ \E r \in RunIds, u \in RerunUnits : VideoSubmitted(r, u, TRUE)
    \/ \E r \in RunIds, u \in RerunUnits, status \in PipelineStatuses :
            VideoPolled(r, u, status)
    \/ \E r \in RunIds, u \in RerunUnits : VideoUrlResolved(r, u, TRUE)
    \/ \E r \in RunIds, u \in RerunUnits : SegmentDownloaded(r, u, TRUE)
    \/ \E param \in PipelineParams :
            InOrder("p1", param) /\ RunStep6("p1", param, TRUE)
    \/ GetStatus("p1")

SpecPipeline == InitPipeline /\ [][NextPipeline]_vars

(***************************************************************************)
(* SpecFrame: every step is run again, in any order, on a project that     *)
(* earlier runs have built up to some step                                 *)
(***************************************************************************)
\* The step whose code writes each file of the directory.
StepOfField ==
    [input |-> 1, script |-> 2, character |-> 3, character_url |-> 3,
     keyframe |-> 4, keyframes_json |-> 4, segment |-> 5,
     list |-> 6, movie |-> 6]

\* The directory after steps 1 to k have run once.
BuiltThrough(n, tag, k) ==
    [f \in DOMAIN NoDir |->
        IF f = "exists" THEN TRUE
        ELSE IF StepOfField[f] <= k THEN BuiltDir(n, tag)[f] ELSE NoDir[f]]

FrameParams == {Decimal(k) : k \in 1..6}

FrameBodies == {Nothing, Some(Description)}

FrameOutcomes == {LLMError, LLMObject(GoodScript(GuardSegments))}

\* The calls of the runs return what the calls of the earlier runs returned.
FrameTags == {0}

InitFrame ==
    /\ \E k \in 1..6 : ServerWith("p1", BuiltThrough(GuardSegments, 0, k))
    /\ DetectIdle
    /\ ClientIdle

NextFrame ==
    \/ \E param \in FrameParams : RejectRunning("p1", param)
    \/ \E param \in FrameParams, body \in FrameBodies :
            RunStep1("p1", param, body)
    \/ \E param \in FrameParams : BeginStep2("p1", param)
    \/ \E h \in HandlerIds, outcome \in FrameOutcomes : LLMReturns(h, outcome)
    \/ \E param \in FrameParams : BeginStep3("p1", param)
    \/ \E h \in HandlerIds, ok \in BOOLEAN, tag \in FrameTags :
            ImageReturns(h, ok, tag)
    \/ \E h \in HandlerIds, ok \in BOOLEAN : CharacterDownloaded(h, ok)
    \/ \E param \in FrameParams, tag \in FrameTags :
            Quiescent /\ BeginStep4("p1", param, tag)
    \/ \E r \in RunIds, u \in RerunUnits, ok \in BOOLEAN :
            KeyframeImageReturns(r, u, ok)
    \/ \E r \in RunIds, u \in RerunUnits, ok \in BOOLEAN :
            KeyframeDownloaded(r, u, ok)
    \/ \E param \in FrameParams, tag \in FrameTags :
            Quiescent /\ BeginStep5("p1", param, tag)
    \/ \E r \in RunIds, u \in RerunUnits, ok \in BOOLEAN :
            VideoSubmitted(r, u, ok)
    \/ \E r \in RunIds, u \in RerunUnits, status \in FanoutStatuses :
            VideoPolled(r, u, status)
    \/ \E r \in RunIds, u \in RerunUnits, ok \in BOOLEAN :
            VideoUrlResolved(r, u, ok)
    \/ \E r \in RunIds, u \in RerunUnits, ok \in BOOLEAN :
            SegmentDownloaded(r, u, ok)
    \/ \E param \in FrameParams, ok \in BOOLEAN : RunStep6("p1", param, ok)
    \/ GetStatus("p1")

SpecFrame == InitFrame /\ [][NextFrame]_vars

(***************************************************************************)
(* SpecZombie: step 4 is requested again while units of a failed step 4    *)
(* are still in flight; the calls of each run return URLs of their own     *)
(***************************************************************************)
ZombieParams == {Decimal(4)}

ZombieTags == 1..MaxRuns

ZombieUnits == 1..(GuardSegments + 1)

InitZombie ==
    /\ ServerWith("p1", BuiltThrough(GuardSegments, 0, 3))
    /\ DetectIdle
    /\ ClientIdle

NextZombie ==
    \/ \E param \in ZombieParams : RejectRunning("p1", param)
    \/ \E param \in ZombieParams, tag \in ZombieTags :
            HasFreeRun /\ tag = FreeRun /\ BeginStep4("p1", param, tag)
    \/ \E r \in RunIds, u \in ZombieUnits, ok \in BOOLEAN :
            KeyframeImageReturns(r, u, ok)
    \/ \E r \in RunIds, u \in ZombieUnits, ok \in BOOLEAN :
            KeyframeDownloaded(r, u, ok)
    \/ GetStatus("p1")

SpecZombie == InitZombie /\ [][NextZombie]_vars

(***************************************************************************)
(* SpecAbsent: steps 2 to 6 are requested on directories that lack the     *)
(* files of some steps                                                     *)
(***************************************************************************)
\* A script.json without the keyframes field.
ScriptWithoutKeyframes == [GoodScript(GuardSegments) EXCEPT !.keyframes = Absent]

\* An empty directory, the directories steps 1 to k leave, and one whose
\* script has no keyframes.
AbsentDirs ==
    {[NoDir EXCEPT !.exists = TRUE]}
      \cup {BuiltThrough(GuardSegments, 1, k) : k \in 1..5}
      \cup {[BuiltThrough(GuardSegments, 1, 3) EXCEPT
                !.script = Some(ScriptWithoutKeyframes)]}

AbsentParams == {Decimal(k) : k \in 2..6}

InitAbsent ==
    /\ \E dir \in AbsentDirs : ServerWith("p1", dir)
    /\ DetectIdle
    /\ ClientIdle

NextAbsent ==
    \/ \E param \in AbsentParams : RejectRunning("p1", param)
    \/ \E param \in AbsentParams : BeginStep2("p1", param)
    \/ \E h \in HandlerIds, outcome \in FrameOutcomes : LLMReturns(h, outcome)
    \/ \E param \in AbsentParams : BeginStep3("p1", param)
    \/ \E h \in HandlerIds, ok \in BOOLEAN, tag \in GuardTags :
            ImageReturns(h, ok, tag)
    \/ \E h \in HandlerIds, ok \in BOOLEAN : CharacterDownloaded(h, ok)
    \/ \E param \in AbsentParams, tag \in GuardTags :
            Quiescent /\ BeginStep4("p1", param, tag)
    \/ \E r \in RunIds, u \in RerunUnits, ok \in BOOLEAN :
            KeyframeImageReturns(r, u, ok)
    \/ \E r \in RunIds, u \in RerunUnits, ok \in BOOLEAN :
            KeyframeDownloaded(r, u, ok)
    \/ \E param \in AbsentParams, tag \in GuardTags :
            Quiescent /\ BeginStep5("p1", param, tag)
    \/ \E r \in RunIds, u \in RerunUnits, ok \in BOOLEAN :
            VideoSubmitted(r, u, ok)
    \/ \E r \in RunIds, u \in RerunUnits, status \in FanoutStatuses :
            VideoPolled(r, u, status)
    \/ \E r \in RunIds, u \in RerunUnits, ok \in BOOLEAN :
            VideoUrlResolved(r, u, ok)
    \/ \E r \in RunIds, u \in RerunUnits, ok \in BOOLEAN :
            SegmentDownloaded(r, u, ok)
    \/ \E param \in AbsentParams, ok \in BOOLEAN : RunStep6("p1", param, ok)
    \/ GetStatus("p1")

SpecAbsent == InitAbsent /\ [][NextAbsent]_vars

(***************************************************************************)
(* The browser client: handleRun of the project view                       *)
(***************************************************************************)
\* const LAST_STEP = 6
LAST_STEP == 6

\* The steps the buttons of the view call handleRun with.
ClientSteps == 2..LAST_STEP

\* The completedStep of the status a step request answers with.
ClientStatuses == 0..LAST_STEP

HasFreeCall == \E c \in CallIds : calls[c].pc = "idle"
FreeCall == CHOOSE c \in CallIds :
    calls[c].pc = "idle" /\ \A d \in CallIds : calls[d].pc = "idle" => c <= d

\* A handleRun call suspended at await runStep(project.id, stepNum), made
\* by the closure of a render in which the checkbox was a.
AwaitingCall(stepNum, a) == [pc |-> "awaiting", stepNum |-> stepNum, auto |-> a]

\* The user clicks a Run button: handleRun(stepNum) returns at once when
\* the flag is set, and else sets it and issues the request.
handleRun(stepNum) ==
    /\ IF runningRef
       THEN /\ clicked' = "returned"
            /\ UNCHANGED <<runningRef, calls>>
       ELSE /\ HasFreeCall
            /\ runningRef' = TRUE
            /\ calls' = [calls EXCEPT ![FreeCall] = AwaitingCall(stepNum, auto)]
            /\ clicked' = "requested"
    /\ UNCHANGED auto
    /\ UNCHANGED <<detectVars, serverVars>>

\* The request of call c settles: runStep throws (ok false) or returns a
\* status. With auto-advance the call resets the flag, calls
\* handleRun(next), which sets the flag and issues the next request, and
\* returns; the finally block then resets the flag.
RunStepReturns(c, ok, completedStep) ==
    LET next == completedStep + 1
        advance == ok /\ calls[c].auto /\ next >= 2 /\ next <= LAST_STEP
    IN  /\ calls[c].pc = "awaiting"
        /\ calls' = [calls EXCEPT ![c] =
                        IF advance THEN AwaitingCall(next, calls[c].auto)
                        ELSE IdleCall]
        /\ runningRef' = FALSE
        /\ clicked' = "none"
        /\ UNCHANGED auto
        /\ UNCHANGED <<detectVars, serverVars>>

\* The user changes the auto-advance checkbox.
SetAuto(checked) ==
    /\ checked # auto
    /\ auto' = checked
    /\ clicked' = "none"
    /\ UNCHANGED <<runningRef, calls>>
    /\ UNCHANGED <<detectVars, serverVars>>

InitClient ==
    /\ ServerIdle
    /\ DetectIdle
    /\ ClientIdle

NextClient ==
    \/ \E stepNum \in ClientSteps : handleRun(stepNum)
    \/ \E c \in CallIds, ok \in BOOLEAN, completedStep \in ClientStatuses :
            RunStepReturns(c, ok, completedStep)
    \/ \E checked \in BOOLEAN : SetAuto(checked)

SpecClient == InitClient /\ [][NextClient]_vars

(***************************************************************************)
(* Claims about run tracking (checked under Spec and SpecProjects)         *)
(***************************************************************************)
\* The admitted step requests of project p that have not ended.
InFlight(p) ==
    {h \in HandlerIds : handlers[h].pc # "idle" /\ handlers[h].proj = p}

\* The step number of the step request executing for p, if any.
ExecutingStep(p) ==
    IF InFlight(p) = {} THEN Nothing
    ELSE Some(handlers[CHOOSE h \in InFlight(p) : TRUE].step)

\* C1: at most one step request of a project is executing at any instant,
\* and a step request (one whose stepNum passes the range check) that
\* arrives while another one of the same project is in flight is answered
\* 409 at once, is not queued and runs no step: it changes nothing.
C1_SingleFlight ==
    /\ [](\A p \in Projects : Cardinality(InFlight(p)) <= 1)
    /\ [][\A p \in Projects :
            (/\ InFlight(p) # {}
             /\ req'.kind = "step"
             /\ req'.id = p
             /\ ~OutOfRange(req'.stepNum))
            => (res'.code = 409 /\ UNCHANGED <<running, store, handlers, runs>>)]_vars

\* A step request was answered 409 while the fan-out of step 4 was awaited.
C1_Witness ==
    /\ req.kind = "step"
    /\ IsStep(req.stepNum, 2)
    /\ res.code = 409
    /\ \E h \in InFlight(req.id) : handlers[h].step = 4

\* The response in res ends a step request that had been admitted.
AdmittedEnded ==
    /\ res.kind = "step"
    /\ res.code # 409
    /\ res.error # "stepNum must be 1-6"

\* C2: when an admitted step request ends (200, 500, or the 400 of step 1
\* without a description), the entry of its project is gone from the running
\* map; and 409 is only answered while an admitted request of that project
\* has not ended, so the request after the end is admitted.
C2_EntryRemoved ==
    /\ AdmittedEnded => ~IsSome(running[res.id])
    /\ (res.kind = "step" /\ res.code = 409) => InFlight(res.id) # {}

\* A step threw after its first await and the entry is gone.
C2_Witness ==
    /\ res.kind = "step"
    /\ res.code = 500
    /\ res.error = "fan-out unit failed"
    /\ req.kind = "none"
    /\ ~IsSome(running[res.id])
    /\ \E r \in RunIds : runs[r].proj = res.id /\ ~Over(runs[r].unit)

\* C3: a step request for a project none of whose step requests is in
\* flight is never answered 409, whatever is in flight for another project.
C3_KeyedByProject ==
    [][\A p \in Projects :
        (/\ InFlight(p) = {}
         /\ \E q \in Projects \ {p} : InFlight(q) # {}
         /\ req'.kind = "step"
         /\ req'.id = p)
        => res'.code # 409]_vars

\* Steps of both projects are executing, the second one just admitted.
C3_Witness ==
    /\ req.kind = "step"
    /\ req.id = "p2"
    /\ res.kind = "none"
    /\ InFlight("p1") # {}
    /\ InFlight("p2") # {}

\* The runningStep of every entry of a project list is the executing step.
ListReportsExecuting(projects) ==
    \A k \in 1..Len(projects) :
        projects[k].runningStep = ExecutingStep(projects[k].id)

\* C4: the runningStep sent by GET /api/projects/:id/status and by
\* GET /api/projects is the step number of the step request executing for
\* the project, and null exactly when none is.
C4_RunningStepReported ==
    /\ res.kind = "status" => res.runningStep = ExecutingStep(res.id)
    /\ res.kind = "list" => ListReportsExecuting(res.projects)

\* A status request was answered while step 5 was executing.
C4_Witness ==
    /\ res.kind = "status"
    /\ res.runningStep = Some(5)
    /\ ExecutingStep(res.id) = Some(5)

(***************************************************************************)
(* Claims about step 2 (checked under SpecScript)                          *)
(***************************************************************************)
\* C7: every script.json written by step 2 has segments and keyframes that
\* are arrays, a mainCharacterDescription that is present, and one keyframe
\* more than segments.
C7_PersistedScriptShape ==
    \A p \in Projects :
        IsSome(store[p].script) =>
            LET script == Get(store[p].script)
            IN  /\ script.segments.kind = "array"
                /\ script.keyframes.kind = "array"
                /\ script.mainCharacterDescription.kind = "text"
                /\ script.mainCharacterDescription.truthy
                /\ Len(script.keyframes.items) = Len(script.segments.items) + 1

\* Step 2 has just written a script of 4 segments and 5 keyframes.
C7_Witness ==
    /\ res.kind = "step"
    /\ res.code = 200
    /\ res.completedStep = 2
    /\ IsSome(store["p1"].script)
    /\ Len(Get(store["p1"].script).segments.items) = 4
    /\ Len(Get(store["p1"].script).keyframes.items) = 5

\* C8: every script.json written by step 2 has between 3 and 6 segments (a
\* payload with another number of segments makes step 2 fail and is not
\* written).
C8_SegmentCountInRange ==
    \A p \in Projects :
        IsSome(store[p].script) =>
            /\ Len(Get(store[p].script).segments.items) >= MinSegments
            /\ Len(Get(store[p].script).segments.items) <= MaxSegments

\* A run of step 2 ends with a 500 response in this step.
Step2Fails ==
    /\ res'.kind = "step"
    /\ res'.code = 500
    /\ \/ req'.kind = "step" /\ IsStep(req'.stepNum, 2)
       \/ \E h \in HandlerIds :
            handlers[h].pc = "llm" /\ handlers'[h].pc = "idle"

\* C9: a run of step 2 that fails (is answered 500) writes no script file:
\* the directory is as it was before.
C9_FailureWritesNothing ==
    [][Step2Fails => store' = store]_vars

(***************************************************************************)
(* Claims about the fan-out (checked under SpecFanout)                     *)
(***************************************************************************)
\* C10: in a run of step 4 or step 5, at most 5 units (a generation call
\* followed by its download) are in flight at any instant.
C10_AtMostFiveInFlight ==
    \A r \in RunIds :
        Cardinality({u \in DOMAIN runs[r].unit :
                        runs[r].unit[u] \notin {"queued", "done", "failed"}}) <= 5

\* Five units of a run of step 5 are in flight and the sixth waits.
C10_Witness ==
    \E r \in RunIds :
        /\ runs[r].step = 5
        /\ Len(runs[r].unit) = 6
        /\ Cardinality({u \in DOMAIN runs[r].unit :
                            runs[r].unit[u] \in {"submit", "poll", "resolve", "dl"}}) = 5
        /\ runs[r].unit[6] = "queued"

(***************************************************************************)
(* Claims about progress inference (checked under SpecDetect)              *)
(***************************************************************************)
\* The numbered names the listings can hold, generated from the convention
\* (not matched by pattern).
NumberedIndexes == (0..(MaxIndex + 1)) \cup {LongIndex}

\* The defining artifact of step k under the fixed naming convention.
ConventionPresent(k, files) ==
    CASE k = 1 -> InputTxt \in files
      [] k = 2 -> ScriptJson \in files
      [] k = 3 -> CharacterJpg \in files
      [] k = 4 -> \E i \in NumberedIndexes : KeyframeJpg(i) \in files
      [] k = 5 -> \E i \in NumberedIndexes : SegmentMp4(i) \in files
      [] k = 6 -> MovieMp4 \in files

\* The same, with output.mp4 accepted as a defining artifact of step 6.
CodePresent(k, files) ==
    IF k = 6 THEN MovieMp4 \in files \/ OutputMp4 \in files
    ELSE ConventionPresent(k, files)

HighestStep(P(_, _), files) ==
    IF \E k \in 1..6 : P(k, files)
    THEN CHOOSE k \in 1..6 :
            P(k, files) /\ \A j \in 1..6 : P(j, files) => j <= k
    ELSE 0

\* C5 as stated: completedStep is the highest step whose defining artifact
\* of the convention (movie.mp4 alone for step 6) is present, 0 when none is,
\* and no other file name contributes.
C5_Original ==
    lastStatus.completedStep = HighestStep(ConventionPresent, dirFiles)

\* C5 amended: completedStep is the highest step k in 1..6 whose defining
\* artifact is present, where step 6 is defined by movie.mp4 or output.mp4,
\* and 0 when none is; the six conditions are independent and no other file
\* name contributes.
C5_Amended ==
    lastStatus.completedStep = HighestStep(CodePresent, dirFiles)

\* output.mp4 alone makes the project complete; movie.mp4 without script.json
\* does too.
C5_Witness ==
    /\ dirOp = "add"
    /\ OutputMp4 \in dirFiles
    /\ MovieMp4 \notin dirFiles
    /\ ScriptJson \notin dirFiles
    /\ StemKeyframe \o ExtJpg \in dirFiles
    /\ lastStatus.completedStep = 6

\* C6: adding a file to a listing never decreases completedStep.
C6_Monotonic ==
    dirOp = "add" => lastStatus.completedStep >= prevStatus.completedStep

\* A file was added below the highest step present and another raised it.
C6_Witness ==
    /\ dirOp = "add"
    /\ prevStatus.completedStep = 2
    /\ lastStatus.completedStep = 5
    /\ InputTxt \in dirFiles

(***************************************************************************)
(* Claims about creation and step 1 (checked under SpecCreate)             *)
(***************************************************************************)
\* C11: every creation yields an id that no existing project has, so it
\* never writes into the directory of an existing project.
C11_FreshId ==
    [][(req'.kind = "create" /\ res'.code = 200)
        => ~store[res'.id].exists]_vars

\* C12: once step 1 has completed for a project, the description stored in
\* input.txt never changes, whatever is done afterwards.
C12_DescriptionImmutable ==
    [][\A p \in Projects :
        IsSome(store[p].input) => store'[p].input = store[p].input]_vars

(***************************************************************************)
(* Claims about the step route (checked under Spec)                        *)
(***************************************************************************)
\* The parsed stepNum is no integer in 1..6.
NotAStepNumber(stepNum) == stepNum.nan \/ stepNum.n < 1 \/ stepNum.n > 6

\* C13: a step request whose stepNum is below 1, above 6 or not a number is
\* answered 400, runs no step and leaves the running map and the
\* directories unchanged.
C13_InvalidStepRejected ==
    [][(req'.kind = "step" /\ NotAStepNumber(req'.stepNum))
        => (res'.code = 400 /\ UNCHANGED <<running, store, handlers, runs>>)]_vars

(***************************************************************************)
(* Claims about re-runs of steps 3 to 5 (checked under SpecRerun)          *)
(***************************************************************************)
\* The awaited fan-out of a step request ends in this step.
FanoutEnds(h) == handlers[h].pc = "fanout" /\ handlers'[h].pc = "idle"

\* Every keyframe and segment file of the directory st is still a file of
\* ts (a unit that goes on may have replaced it by its own download).
FilesKept(st, ts) ==
    /\ \A k \in DOMAIN st.keyframe :
            IsSome(st.keyframe[k]) =>
                k \in DOMAIN ts.keyframe /\ IsSome(ts.keyframe[k])
    /\ \A k \in DOMAIN st.segment :
            IsSome(st.segment[k]) =>
                k \in DOMAIN ts.segment /\ IsSome(ts.segment[k])

\* C14: when a unit of the fan-out of step 4 or step 5 fails, the owning
\* step fails: no awaited fan-out goes on with a failed unit, and the turn
\* in which an awaited fan-out ends without all its units done answers 500
\* with the error and leaves the directory as it is; after that no
\* keyframes.json is written and no file removed while units of the run go
\* on.
C14_FailedUnitFailsStep ==
    /\ [](\A r \in RunIds :
            (runs[r].step # 0 /\ ~runs[r].settled)
                => \A u \in DOMAIN runs[r].unit : runs[r].unit[u] # "failed")
    /\ [][\A h \in HandlerIds :
            (FanoutEnds(h) /\ res'.code # 200)
                => (/\ res'.kind = "step"
                    /\ res'.code = 500
                    /\ res'.error # ""
                    /\ store' = store)]_vars
    /\ [][\A h \in HandlerIds :
            (FanoutEnds(h) /\ res'.code = 200)
                => (\A u \in DOMAIN runs[handlers[h].run].unit :
                        runs[handlers[h].run].unit[u] \in {"done", "dl"})]_vars
    /\ [][\A r \in RunIds :
            (runs[r].step # 0 /\ runs[r].settled)
                => /\ store'[runs[r].proj].keyframes_json
                        = store[runs[r].proj].keyframes_json
                   /\ FilesKept(store[runs[r].proj], store'[runs[r].proj])]_vars

\* Step 4 was answered 500 because a unit failed: the keyframe file another
\* unit of the run had downloaded is in place and keyframes.json is the one
\* of the run before.
C14_Witness ==
    /\ res.kind = "step"
    /\ res.code = 500
    /\ res.error = "fan-out unit failed"
    /\ store[res.id].keyframe[1] = Some(Url(1, 0))
    /\ store[res.id].keyframe[2] = Some(Url(0, 1))
    /\ store[res.id].keyframes_json = BuiltDir(GuardSegments, 0).keyframes_json

\* The keyframe URLs of a run with the given tag for a script of n segments:
\* entry i is the URL of the call made for script.keyframes[i].
ExpectedKeyframeUrls(tag, n) == [k \in 1..(n + 1) |-> Url(tag, k - 1)]

\* C15: when step 4 succeeds, keyframes.json holds N + 1 URLs (N the number
\* of segments of the script), entry i being the URL generated for
\* script.keyframes[i]; success is answered in the turn in which the last
\* of the N + 1 units has downloaded its file keyframe{i}.jpg and
\* keyframes.json is written, in whatever order the units completed.
C15_KeyframeUrlsAligned ==
    [][\A h \in HandlerIds :
        (FanoutEnds(h) /\ handlers[h].step = 4 /\ res'.code = 200)
            => LET p == handlers[h].proj
                   tag == runs[handlers[h].run].tag
                   n == Len(Get(store[p].script).segments.items)
                   urls == ExpectedKeyframeUrls(tag, n)
               IN  /\ store'[p].keyframes_json = Some(urls)
                   /\ DOMAIN runs[handlers[h].run].unit = 1..(n + 1)
                   /\ \A k \in 1..(n + 1) :
                        /\ runs[handlers[h].run].unit[k] \in {"done", "dl"}
                        /\ k \in DOMAIN store'[p].keyframe
                        /\ IsSome(store'[p].keyframe[k])]_vars

\* Step 4 has just succeeded on a directory built by an earlier run: the
\* keyframes and keyframes.json are the ones of the new run.
C15_Witness ==
    /\ res.kind = "step"
    /\ res.code = 200
    /\ res.completedStep = 6
    /\ req.kind = "none"
    /\ store[res.id].keyframes_json
            = Some(ExpectedKeyframeUrls(1, GuardSegments))
    /\ store[res.id].keyframe = BuiltDir(GuardSegments, 1).keyframe
    /\ store[res.id].segment = BuiltDir(GuardSegments, 0).segment
    /\ store[res.id].character = BuiltDir(GuardSegments, 0).character

(***************************************************************************)
(* Claims about step 5 (checked under SpecStale)                           *)
(***************************************************************************)
\* The file segment{k}.mp4 of project p is written in this step.
SegmentWritten(p, k) ==
    /\ k \in DOMAIN store'[p].segment
    /\ IsSome(store'[p].segment[k])
    /\ (k \in DOMAIN store[p].segment
            => store'[p].segment[k] # store[p].segment[k])

\* keyframes.json[i] of project p, for the 1-based position k = i + 1
\* (undefined beyond the end of the list).
KeyframeUrlOf(p, k) ==
    LET kf == Get(store[p].keyframes_json)
    IN  IF k <= Len(kf) THEN Some(kf[k]) ELSE Nothing

\* C16: every segment file step 5 writes, segment{i+1}.mp4, is the download
\* of the video the unit of segment i generated with keyframes.json[i] as
\* first frame and keyframes.json[i+1] as last frame; so the last frame of a
\* segment is the first frame of the next one.
C16_SegmentFrames ==
    [][\A p \in Projects : \A k \in 1..(GuardSegments + 2) :
        SegmentWritten(p, k)
            => /\ \E r \in RunIds :
                    /\ runs[r].proj = p
                    /\ runs[r].step = 5
                    /\ k \in DOMAIN runs[r].unit
                    /\ runs[r].unit[k] = "dl"
                    /\ Get(store'[p].segment[k]).tag = runs[r].tag
               /\ Get(store'[p].segment[k]).first = KeyframeUrlOf(p, k)
               /\ Get(store'[p].segment[k]).last = KeyframeUrlOf(p, k + 1)]_vars

\* Step 5 has written the segments of a script of two or more segments: the
\* last frame of segment 1 is the first frame of segment 2, an entry of
\* keyframes.json.
C16_Witness ==
    /\ res.kind = "step"
    /\ res.code = 200
    /\ req.kind = "none"
    /\ Len(store[res.id].segment) >= 2
    /\ IsSome(store[res.id].segment[2])
    /\ Get(store[res.id].segment[1]).tag = 1
    /\ Get(store[res.id].segment[2]).tag = 1
    /\ Get(store[res.id].segment[1]).last = Get(store[res.id].segment[2]).first
    /\ Get(store[res.id].segment[1]).last
            = Some(Get(store[res.id].keyframes_json)[2])

\* Some unit of a run of step 5 that was polling is at phase next after
\* this step.
PolledUnitGoesTo(next) ==
    \E r \in RunIds : \E u \in DOMAIN runs[r].unit :
        /\ runs[r].step = 5
        /\ runs[r].unit[u] = "poll"
        /\ runs'[r].step = 5
        /\ runs'[r].unit[u] = next

\* The polled unit fails in this step (a run all of whose units are over is
\* dropped).
PolledUnitFails ==
    \E r \in RunIds : \E u \in DOMAIN runs[r].unit :
        /\ runs[r].step = 5
        /\ runs[r].unit[u] = "poll"
        /\ (runs'[r].step = 0 \/ runs'[r].unit[u] = "failed")

\* C17: polling stops at the first poll that reports a terminal status: on
\* Success the unit goes on to resolve the download URL, on Fail it fails;
\* and a unit resolves a URL, and so downloads a segment, only after a
\* poll that reported Success.
C17_PollingStops ==
    /\ [][(req'.kind = "poll" /\ req'.id \in {"Success", "SuccessNoFile"})
            => PolledUnitGoesTo("resolve")]_vars
    /\ [][(req'.kind = "poll" /\ req'.id = "Fail") => PolledUnitFails]_vars
    /\ [][\A r \in RunIds : \A u \in DOMAIN runs[r].unit :
            (/\ runs[r].unit[u] # "resolve"
             /\ runs'[r].step # 0
             /\ runs'[r].unit[u] = "resolve")
                => (req'.kind = "poll" /\ req'.id \in {"Success", "SuccessNoFile"})]_vars

(***************************************************************************)
(* Claims about step 3 (checked under SpecCharacter)                       *)
(***************************************************************************)
\* The step 3 request of handler h ends with success in this step.
Step3Succeeds(h) ==
    /\ handlers[h].step = 3
    /\ handlers[h].pc = "download"
    /\ handlers'[h].pc = "idle"
    /\ res'.code = 200

\* C18: a run of step 3 that succeeds leaves character.jpg and
\* character_url.txt both holding the output of that run's generation call,
\* also when they held the output of an earlier run, and changes no other
\* file: the keyframe files and keyframes.json of an earlier step 4 stay as
\* they are. The two files always come from the same call.
C18_Step3Overwrites ==
    /\ [](\A p \in Projects : store[p].character = store[p].character_url)
    /\ [][\A h \in HandlerIds :
            Step3Succeeds(h)
                => LET p == handlers[h].proj
                   IN  store'[p] = [store[p] EXCEPT
                            !.character = handlers[h].url,
                            !.character_url = handlers[h].url]]_vars

\* Step 3 has succeeded twice (its second image call has number 2): both
\* files hold the second output and the keyframes are the ones of the run
\* that built the directory.
C18_Witness ==
    /\ res.kind = "step"
    /\ res.code = 200
    /\ store[res.id].character = Some(Url(2, -1))
    /\ store[res.id].character_url = Some(Url(2, -1))
    /\ store[res.id].keyframe = BuiltDir(GuardSegments, 0).keyframe
    /\ store[res.id].keyframes_json = BuiltDir(GuardSegments, 0).keyframes_json

(***************************************************************************)
(* Claims about the pipeline in order (checked under SpecPipeline)         *)
(***************************************************************************)
\* C19: on a freshly created project whose steps 2 to 6 are run in order
\* with every call succeeding, the response of step k reports
\* completedStep = k, for every k, and the status requested after step 6
\* reports completedStep 6 and runningStep null.
C19_CompletedStepFollows ==
    /\ [][\A h \in HandlerIds :
            (handlers[h].pc # "idle" /\ handlers'[h].pc = "idle")
                => (/\ res'.kind = "step"
                    /\ res'.code = 200
                    /\ res'.completedStep = handlers[h].step)]_vars
    /\ [][(req'.kind = "step" /\ res'.kind = "step" /\ res'.code # 409)
            => (/\ res'.code = 200
                /\ res'.completedStep = req'.stepNum.n)]_vars
    /\ [][(req'.kind = "create") => (res'.code = 200 /\ res'.completedStep = 1)]_vars
    /\ []((res.kind = "status" /\ IsSome(store[res.id].movie))
            => (res.completedStep = 6 /\ res.runningStep = Nothing))

\* The status is requested after step 6 has returned: the directory holds
\* the artifacts of all six steps.
C19_Witness ==
    /\ res.kind = "status"
    /\ res.completedStep = 6
    /\ res.runningStep = Nothing
    /\ store[res.id] = BuiltDir(GuardSegments, 1)

(***************************************************************************)
(* Claims about re-runs and later artifacts (checked under SpecFrame)      *)
(***************************************************************************)
\* Step k acts in the transition: its synchronous code runs for the request
\* that arrived, or a continuation of its asynchronous code runs.
StepActs(k) ==
    \/ req'.kind = "step" /\ IsStep(req'.stepNum, k)
    \/ \E h \in HandlerIds : handlers[h].step = k /\ handlers'[h] # handlers[h]
    \/ \E r \in RunIds : runs[r].step = k /\ runs'[r] # runs[r]

\* The artifacts of the steps after step k.
LaterArtifacts(st, k) ==
    [f \in {g \in DOMAIN StepOfField : StepOfField[g] > k} |-> st[f]]

\* C20: no step run deletes or modifies an artifact of a later step: while
\* step k acts, the artifacts of steps k+1..6 stay as they are, and the
\* completedStep of a project, and the one reported, never decreases.
C20_LaterArtifactsKept ==
    /\ [][\A k \in 1..6 : \A p \in Projects :
            StepActs(k)
                => LaterArtifacts(store'[p], k) = LaterArtifacts(store[p], k)]_vars
    /\ [][\A p \in Projects :
            /\ FilesOf(store[p]) \subseteq FilesOf(store'[p])
            /\ statusOfDir(store'[p]).completedStep
                 >= statusOfDir(store[p]).completedStep]_vars
    /\ [][(res'.kind \in {"step", "status"} /\ res'.code = 200)
            => res'.completedStep
                 >= statusOfDir(store[res'.id]).completedStep]_vars

\* Step 1 has run again on a complete project and has written its
\* description; the project is still reported complete.
C20_Witness ==
    /\ req.kind = "step"
    /\ IsStep(req.stepNum, 1)
    /\ res.kind = "step"
    /\ res.code = 200
    /\ res.completedStep = 6
    /\ store[res.id].input = Some(Description)
    /\ LaterArtifacts(store[res.id], 1) = LaterArtifacts(BuiltDir(GuardSegments, 0), 1)

(***************************************************************************)
(* Claims about rejected requests (checked under Spec)                     *)
(***************************************************************************)
\* C21: a step request rejected with 409 changes nothing: the running map
\* still maps the project to the step of the run in flight, no artifact is
\* written, and an entry of the running map stays as recorded until the
\* request that recorded it ends.
C21_RejectedChangesNothing ==
    /\ [][(req'.kind = "step" /\ res'.code = 409)
            => (/\ running' = running
                /\ \E h \in InFlight(req'.id) :
                        running'[req'.id] = Some(Num(handlers[h].step))
                /\ store' = store
                /\ UNCHANGED <<handlers, runs>>)]_vars
    /\ [][\A p \in Projects :
            (IsSome(running[p]) /\ running'[p] # running[p])
                => (/\ running'[p] = Nothing
                    /\ \E h \in InFlight(p) :
                            /\ handlers'[h].pc = "idle"
                            /\ res'.kind = "step"
                            /\ res'.id = p
                            /\ res'.code # 409)]_vars

\* A request for step 3 was answered 409 while step 5 was running, and the
\* entry of step 5 is still recorded.
C21_Witness ==
    /\ req.kind = "step"
    /\ IsStep(req.stepNum, 3)
    /\ res.code = 409
    /\ running[req.id] = Some(Num(5))
    /\ \E h \in InFlight(req.id) : handlers[h].step = 5

(***************************************************************************)
(* Claims about units that go on after their step failed                   *)
(***************************************************************************)
\* C22: when a run of step 4 returns success, every file keyframe{i}.jpg
\* holds the image of the URL at keyframes.json[i] of that run, also when
\* units of an earlier, failed run of step 4 were still in flight.
C22_KeyframesOfTheRun ==
    [][\A h \in HandlerIds :
        (FanoutEnds(h) /\ handlers[h].step = 4 /\ res'.code = 200)
            => LET st == store'[handlers[h].proj]
                   urls == keyframeUrls(runs[handlers[h].run])
               IN  /\ st.keyframes_json = Some(urls)
                   /\ \A k \in DOMAIN urls :
                        /\ k \in DOMAIN st.keyframe
                        /\ st.keyframe[k] = Some(urls[k])]_vars

\* C23: once a unit of a fan-out has rejected and the step has reported
\* failure, the units of that run still queued behind the limit are not
\* started: a unit that is queued when the step has failed stays queued.
C23_QueuedNotStarted ==
    [][\A r \in RunIds :
        (runs[r].step # 0 /\ runs[r].settled)
            => \A u \in Queued(runs[r].unit) :
                    /\ runs'[r].step = runs[r].step
                    /\ runs'[r].unit[u] = "queued"]_vars

(***************************************************************************)
(* Claims about missing upstream artifacts (checked under SpecAbsent)      *)
(***************************************************************************)
\* The directory st lacks a file step k reads before its first call.
UpstreamAbsent(k, st) ==
    \/ k = 2 /\ ~IsSome(st.input)
    \/ k \in 3..6 /\ ~IsSome(st.script)
    \/ k = 4 /\ ~IsSome(st.character_url)
    \/ k = 4 /\ IsSome(st.script) /\ Get(st.script).keyframes = Absent
    \/ k = 5 /\ ~IsSome(st.keyframes_json)

\* C24: a step whose required upstream artifact is absent fails before any
\* generation call is made and without writing any artifact, and the
\* request is answered 500.
C24_AbsentUpstreamFails ==
    [][\A k \in 2..6 :
        (/\ req'.kind = "step"
         /\ IsStep(req'.stepNum, k)
         /\ ~hasRunning(req'.id)
         /\ UpstreamAbsent(k, store[req'.id]))
            => (/\ res'.kind = "step"
                /\ res'.code = 500
                /\ store' = store
                /\ UNCHANGED <<running, handlers, runs>>)]_vars

\* Step 5 was requested on a directory with a script and without
\* keyframes.json, and was answered 500.
C24_Witness ==
    /\ req.kind = "step"
    /\ IsStep(req.stepNum, 5)
    /\ IsSome(store[req.id].script)
    /\ ~IsSome(store[req.id].keyframes_json)
    /\ res.code = 500
    /\ res.error = "ENOENT: keyframes.json"

(***************************************************************************)
(* Claims about a video task that never ends (checked under SpecStale)     *)
(***************************************************************************)
\* The statuses by which the provider reports that a task is over.
TerminalStatuses == {"Success", "SuccessNoFile", "Fail"}

\* Unit u of run r, whose Promise.all has not settled, is polling its task.
Polling(r, u) ==
    /\ runs[r].step = 5
    /\ ~runs[r].settled
    /\ u \in DOMAIN runs[r].unit
    /\ runs[r].unit[u] = "poll"

\* Unit u of run r stops polling in this step.
PollingEnds(r, u) == runs'[r].step = 0 \/ runs'[r].unit[u] # "poll"

\* The provider reports in this step that the task of unit u of run r is over.
TerminalReported(r, u) ==
    /\ req'.kind = "poll"
    /\ req'.id \in TerminalStatuses
    /\ PollingEnds(r, u)

\* The step 5 request awaiting run r goes on and its entry stays recorded.
RunGoesOn(r) ==
    /\ runs'[r].step = 5
    /\ ~runs'[r].settled
    /\ hasRunning(runs[r].proj)
    /\ running'[runs[r].proj] = running[runs[r].proj]

\* A step request for a project with a polling unit is answered 409.
RejectedWhilePolling ==
    \A r \in RunIds : \A u \in DOMAIN runs[r].unit :
        (Polling(r, u) /\ req'.kind = "step" /\ req'.id = runs[r].proj)
            => res'.code = 409

\* C25 as stated: as long as the provider has not reported a terminal status
\* for a video task, the step 5 run polling it does not end and its entry of
\* the running map is not removed, so a step request for the project is
\* answered 409.
C25_Original ==
    /\ [][\A r \in RunIds : \A u \in DOMAIN runs[r].unit :
            (Polling(r, u) /\ ~TerminalReported(r, u)) => RunGoesOn(r)]_vars
    /\ [][RejectedWhilePolling]_vars

\* C25 amended: as long as the provider has not reported a terminal status
\* for a video task, the polling of that task ends only by a poll request
\* that fails, and the step 5 run polling it ends only by failing with 500,
\* because a request of that task or a unit of another segment failed;
\* until then its entry of the running map is not removed and a step request
\* for the project is answered 409.
C25_Amended ==
    /\ [][\A r \in RunIds : \A u \in DOMAIN runs[r].unit :
            (Polling(r, u) /\ ~TerminalReported(r, u))
                => (/\ PollingEnds(r, u) =>
                            (req'.kind = "poll" /\ req'.id = "HttpError")
                    /\ \/ RunGoesOn(r)
                       \/ /\ res'.kind = "step"
                          /\ res'.id = runs[r].proj
                          /\ res'.code = 500
                          /\ running'[runs[r].proj] = Nothing)]_vars
    /\ [][RejectedWhilePolling]_vars

\* A step request is answered 409 while a task of the run in flight, which
\* the provider reported as not over, is polled.
C25_Witness ==
    /\ req.kind = "step"
    /\ res.code = 409
    /\ \E r \in RunIds : \E u \in DOMAIN runs[r].unit :
            /\ runs[r].step = 5
            /\ ~runs[r].settled
            /\ runs[r].proj = req.id
            /\ runs[r].unit[u] = "poll"
            /\ \E v \in DOMAIN runs[r].unit : runs[r].unit[v] = "done"

(***************************************************************************)
(* Claims about partial runs (checked under SpecAbsent)                    *)
(***************************************************************************)
\* C26: a run of step 3, 4 or 5 raises the completedStep that detectStatus
\* reports for the project to its own step number only by completing
\* successfully: the value rises to k only in the step in which a request
\* for step k is answered 200, never while the run goes on or when it fails.
C26_CompletedOnlyBySuccess ==
    [][\A p \in Projects : \A k \in 3..5 :
        (/\ statusOfDir(store[p]).completedStep < k
         /\ statusOfDir(store'[p]).completedStep = k)
            => (/\ res'.kind = "step"
                /\ res'.id = p
                /\ res'.code = 200
                /\ res'.completedStep = k)]_vars

(***************************************************************************)
(* Claims about the client (checked under SpecClient)                      *)
(***************************************************************************)
\* The handleRun calls whose runStep request is outstanding.
Outstanding == {c \in CallIds : calls[c].pc = "awaiting"}

\* C27: runningRef is true for the whole time a runStep request issued by
\* handleRun is outstanding, the requests of auto-advance included, so a
\* handleRun call made during that time issues no request: at most one
\* request is outstanding.
C27_FlagHeld ==
    /\ Outstanding # {} => runningRef
    /\ Cardinality(Outstanding) <= 1

=============================================================================
